---- MODULE Spec2Model ----
(***************************************************************************)
(* A model of the AweAgent repository:                                     *)
(*   - the search -> annotate -> persist -> report pipeline                *)
(*     (PaperAgent.run, PaperAgent.query_paper, search_papers, db.py);     *)
(*   - the JSON -> README / HTML synchronisation scripts                   *)
(*     (utils.py, update_readme.py, update_html.py).                       *)
(* Each part has its own specification over the shared variables; the part *)
(* a specification does not exercise stays in its initial state.           *)
(***************************************************************************)
EXTENDS Integers, Sequences, FiniteSets, TLC

VARIABLES
    \* ---- PaperAgent.run (workflow.py) ----
    pc,               \* position of PaperAgent.run
    db_path,          \* the db_path argument of run
    calls,            \* per step: how often run has invoked it
    rets,             \* per step: how often it has returned to run
    annotator_input,  \* argument of the latest annotator.run call
    annotator_res,    \* content of the latest annotator response
    paper_list,       \* annotator_res.content.model_dump()["paper_list"]
    query_paper_res,  \* the value query_paper returned
    session,          \* file the full-results session of query_paper is bound to
    session_filter,   \* file and uncommitted rows of query_paper's filter session
    runs,             \* number of runs started so far
    \* ---- search_papers (tool.py) ----
    sp,               \* the running / latest search_papers invocation
    toolCalls,        \* search_papers calls made by the current searcher.run
    \* ---- the SQLite files ----
    db,               \* file -> committed rows of its papers table
    \* ---- the synchronisation scripts (others/Update_from_json/Script) ----
    lp,               \* a load_project_data call
    mn,               \* a run of update_readme.main / update_html.main
    rd,               \* a README file under update_readme_file
    ht,               \* an HTML file under update_html_file
    cp,               \* a compare_project_data call
    \* ---- the command line entry point (Aweagent/main.py) ----
    sel,              \* a select_model_and_get_keys call
    cli,              \* the main thread in main, from the Spinner on
    spn,              \* the Spinner object and its thread
    stdout,           \* the latest writes to standard output, oldest first
    \* ---- the other scripts of Update_from_json ----
    ua,               \* a run of update_all.main
    pf,               \* a run of add_record_interactive.main
    \* ---- search_papers calls of several processes (tool.py) ----
    cc                \* per process: its search_papers call and session

pipeVars == <<pc, db_path, calls, rets, annotator_input, annotator_res,
              paper_list, query_paper_res, session, session_filter, runs,
              sp, toolCalls, db>>

syncVars == <<lp, mn, rd, ht, cp>>

cliVars == <<sel, cli, spn, stdout>>

toolVars == <<ua, pf, cc>>

vars == <<pipeVars, syncVars, cliVars, toolVars>>

None == "None"      \* Python's None, where the other values are strings
NoFile == <<>>      \* no file (files are <<directory, name>> pairs)
NoContent == [kind |-> "none"]

\* ------------------------------------------------------------------ bounds
MaxPapers == 2      \* papers in one search API response
MaxList == 2        \* entries of one annotator paper_list
MaxRuns == 2        \* runs of PaperAgent.run, one after the other
MaxToolCalls == 2   \* search_papers calls the searcher makes in one run
MaxCount == 3       \* the annotator call counter saturates here
MaxCats == 2        \* categories of a project-data JSON file
MaxProjects == 1    \* projects of one category
MaxMainRuns == 2    \* runs of a main function, one after the other
MaxLines == 3       \* lines of a README file
MaxApply == 2       \* applications of an update to one file
MaxChunks == 3      \* pieces of an HTML file
MaxPrompts == 6     \* input() calls of one select_model_and_get_keys call
MaxOut == 3
MaxParts == 11          \* fields of a line typed at the "Record: " prompt
MaxRecordPrompts == 2   \* inputs read by one prompt loop
MaxProcCalls == 1       \* search_papers calls of one process         \* writes to standard output that are kept

\* ------------------------------------------------------------------ data
DOIs == {"d1", "d2"}
Titles == {"t1", "t2"}
Categories == {"c1", "c2"}
ContentStrings == {"s1", "s2"}

\* a paper of the search API response: DOI (externalIds["DOI"] or None),
\* title, and the authorId of its last author (or None)
ApiPapers ==
    { [doi |-> "d1", title |-> "t1", authorId |-> "a1"],
      [doi |-> "d1", title |-> "t2", authorId |-> "a1"],
      [doi |-> "d2", title |-> "t1", authorId |-> "a1"],
      [doi |-> None, title |-> "t2", authorId |-> "a1"],
      [doi |-> "d2", title |-> "t2", authorId |-> None] }

\* an entry of the annotator's paper_list (PaperModel; domain left out as
\* it is carried along with category)
ListEntries == [doi : DOIs, category : Categories]

SeqsUpTo(S, n) == UNION { [1..k -> S] : k \in 0..n }

\* ------------------------------------------------------------------ files
FULL_DB == "SemanticScholar_papers.db"
FILTER_DB == "SemanticScholar_papers_filter.db"
Dirs == {".", "SemanticScholar_db"}
DbPaths == {None, "SemanticScholar_db"}
Files == Dirs \X {FULL_DB, FILTER_DB}

os_path_join(dir, name) == <<dir, name>>
os_path_dirname(path) == path[1]

\* db.py get_database_session: the file the returned session is bound to
\* (DATABASE_URL is unset, so the default URL names the file in the cwd)
get_database_session(path) ==
    IF path # None THEN os_path_join(path, FULL_DB)
                   ELSE os_path_join(".", FULL_DB)

\* workflow.py query_paper, lines 36-39: the file session_filter is bound to
filter_db_full_path(path) ==
    IF path # None THEN os_path_join(path, FILTER_DB)
                   ELSE os_path_join(".", FILTER_DB)

SessionFilterFile(path) ==
    get_database_session(IF path # None
                         THEN os_path_dirname(filter_db_full_path(path))
                         ELSE None)

\* ------------------------------------------------------------------ rows
Row(doi, title, category) == [doi |-> doi, title |-> title, category |-> category]

DoisOf(rows) == { rows[i].doi : i \in 1..Len(rows) }

\* session.query(Paper).filter_by(doi=doi).first() is not None
Existing(rows, doi) == \E i \in 1..Len(rows) : rows[i].doi = doi

\* number of rows with that DOI
CountDoi(rows, doi) == Cardinality({ i \in 1..Len(rows) : rows[i].doi = doi })

Steps == {"searcher", "annotator", "query_paper", "reporter"}

\* sp.txn: the rows added to the session and not yet committed
SpIdle == [pc |-> "idle", papers |-> <<>>, idx |-> 1, txn |-> <<>>,
           paper_ls |-> <<>>, file |-> NoFile]

InitPipe ==
    /\ pc = "idle"
    /\ db_path = None
    /\ calls = [s \in Steps |-> 0]
    /\ rets = [s \in Steps |-> 0]
    /\ annotator_input = None
    /\ annotator_res = NoContent
    /\ paper_list = <<>>
    /\ query_paper_res = <<>>
    /\ session = NoFile
    /\ session_filter = [file |-> NoFile, new |-> <<>>]
    /\ runs = 0
    /\ sp = SpIdle
    /\ toolCalls = 0
    /\ db = [f \in Files |-> <<>>]

\* ------------------------------------------------------- search_papers
\* The rows a query of the session sees: sessionmaker's default autoflush
\* writes the pending rows into the transaction before every query, so the
\* session sees the committed rows and its own additions.
\* (mutant) a session made with autoflush=False
QueryVisibleNoAutoflush(committed, txn) == committed

QueryVisible(committed, txn) == committed \o txn

\* (mutant) the table is rewritten with the rows of this search
CommitRowsReplacing(committed, txn) == txn

\* session.commit(): the session's rows are appended to the table

CommitRows(committed, txn) == committed \o txn

\* tool.py 92-112: the API call, the author filter, the early return and
\* the session; made by the searcher agent as a tool call
SearchPapersCall(resp) ==
    /\ pc = "searcher"
    /\ sp.pc \in {"idle", "returned"}
    /\ toolCalls < MaxToolCalls
    /\ toolCalls' = toolCalls + 1
    /\ LET papers == SelectSeq(resp, LAMBDA p : p.authorId # None)
       IN  sp' = IF Len(papers) = 0
                 THEN [SpIdle EXCEPT !.pc = "returned"]
                 ELSE [SpIdle EXCEPT !.pc = "loop", !.papers = papers,
                                     !.file = get_database_session(None)]
    /\ UNCHANGED <<pc, db_path, calls, rets, annotator_input, annotator_res,
                   paper_list, query_paper_res, session, session_filter,
                   runs, db>>
    /\ UNCHANGED <<toolVars, syncVars, cliVars>>

\* tool.py 113-155: one iteration of the loop over the papers
SearchPapersIter ==
    /\ sp.pc = "loop"
    /\ sp.idx <= Len(sp.papers)
    /\ LET paper == sp.papers[sp.idx]
           existing == Existing(QueryVisible(db[sp.file], sp.txn), paper.doi)
       IN  sp' = IF paper.doi = None
                 THEN [sp EXCEPT !.idx = @ + 1]
                 ELSE [sp EXCEPT !.idx = @ + 1,
                                 !.txn = IF existing THEN @
                                         ELSE Append(@, Row(paper.doi, paper.title, None)),
                                 !.paper_ls = Append(@, paper.doi)]
    /\ UNCHANGED <<pc, db_path, calls, rets, annotator_input, annotator_res,
                   paper_list, query_paper_res, session, session_filter,
                   runs, toolCalls, db>>
    /\ UNCHANGED <<toolVars, syncVars, cliVars>>

\* tool.py 156-157: session.commit() and the return
SearchPapersCommit ==
    /\ sp.pc = "loop"
    /\ sp.idx > Len(sp.papers)
    /\ db' = [db EXCEPT ![sp.file] = CommitRows(@, sp.txn)]
    /\ sp' = [sp EXCEPT !.pc = "returned"]
    /\ UNCHANGED <<pc, db_path, calls, rets, annotator_input, annotator_res,
                   paper_list, query_paper_res, session, session_filter,
                   runs, toolCalls>>
    /\ UNCHANGED <<toolVars, syncVars, cliVars>>

\* ------------------------------------------------------- PaperAgent.run
Bump(f, s) == [f EXCEPT ![s] = @ + 1]

\* the annotator may be called any number of times; its counter saturates
BumpSat(f, s) == [f EXCEPT ![s] = IF @ < MaxCount THEN @ + 1 ELSE @]

\* workflow.py 16-18: run is entered and calls self.searcher.run(msg)
RunStart(path) ==
    /\ pc \in {"idle", "done", "raised"}
    /\ runs < MaxRuns
    /\ runs' = runs + 1
    /\ db_path' = path
    /\ pc' = "searcher"
    /\ calls' = Bump([s \in Steps |-> 0], "searcher")
    /\ rets' = [s \in Steps |-> 0]
    /\ annotator_input' = None
    /\ annotator_res' = NoContent
    /\ paper_list' = <<>>
    /\ query_paper_res' = <<>>
    /\ session' = NoFile
    /\ session_filter' = [file |-> NoFile, new |-> <<>>]
    /\ sp' = SpIdle
    /\ toolCalls' = 0
    /\ UNCHANGED db
    /\ UNCHANGED <<toolVars, syncVars, cliVars>>

\* workflow.py 18-21: the searcher returns rep, the annotator is called
\* with rep.content
SearcherReturns ==
    /\ pc = "searcher"
    /\ sp.pc \in {"idle", "returned"}
    /\ rets' = Bump(rets, "searcher")
    /\ calls' = BumpSat(calls, "annotator")
    /\ annotator_input' = "rep.content"
    /\ pc' = "annotator"
    /\ sp' = SpIdle
    /\ UNCHANGED <<db_path, annotator_res, paper_list, query_paper_res,
                   session, session_filter, runs, toolCalls, db>>
    /\ UNCHANGED <<toolVars, syncVars, cliVars>>

\* (mutant) run catches the exception of the searcher and calls it again
SearcherRaisesRetried ==
    /\ pc = "searcher"
    /\ sp.pc \in {"idle", "returned"}
    /\ calls["searcher"] < MaxCount
    /\ calls' = Bump(calls, "searcher")
    /\ sp' = SpIdle
    /\ UNCHANGED <<pc, db_path, rets, annotator_input, annotator_res,
                   paper_list, query_paper_res, session, session_filter,
                   runs, toolCalls, db>>
    /\ UNCHANGED <<toolVars, syncVars, cliVars>>

\* workflow.py 18: any exception of the searcher propagates out of run
SearcherRaises ==
    /\ pc = "searcher"
    /\ sp.pc \in {"idle", "returned"}
    /\ pc' = "raised"
    /\ sp' = SpIdle
    /\ UNCHANGED <<db_path, calls, rets, annotator_input, annotator_res,
                   paper_list, query_paper_res, session, session_filter,
                   runs, toolCalls, db>>
    /\ UNCHANGED <<toolVars, syncVars, cliVars>>

\* the responses the annotator can give: a plain string, or a PaperListModel
AnnotatorContents ==
    { [kind |-> "str", text |-> t, paper_list |-> <<>>] : t \in ContentStrings }
    \cup { [kind |-> "obj", text |-> None, paper_list |-> l] :
                l \in SeqsUpTo(ListEntries, MaxList) }

\* workflow.py 21 / 23: an annotator.run call returns
AnnotatorReturns(content) ==
    /\ pc = "annotator"
    /\ annotator_res' = content
    /\ rets' = BumpSat(rets, "annotator")
    /\ pc' = "while"
    /\ UNCHANGED <<db_path, calls, annotator_input, paper_list,
                   query_paper_res, session, session_filter, runs, sp,
                   toolCalls, db>>
    /\ UNCHANGED <<toolVars, syncVars, cliVars>>

\* workflow.py 21 / 23: an exception of an annotator.run call propagates
\* out of run
AnnotatorRaises ==
    /\ pc = "annotator"
    /\ pc' = "raised"
    /\ UNCHANGED <<db_path, calls, rets, annotator_input, annotator_res,
                   paper_list, query_paper_res, session, session_filter,
                   runs, sp, toolCalls, db>>
    /\ UNCHANGED <<toolVars, syncVars, cliVars>>

\* (mutant) a loop that gives up after MaxCount calls
LoopConditionBounded(content) ==
    content.kind = "str" /\ calls["annotator"] < MaxCount

\* workflow.py 22: isinstance(annotator_res.content, str)
LoopCondition(content) == content.kind = "str"

\* (mutant) the annotator is called again with the searcher's output
AnnotateRetryWithSearchOutput ==
    /\ pc = "while"
    /\ LoopCondition(annotator_res)
    /\ annotator_input' = "rep.content"
    /\ calls' = BumpSat(calls, "annotator")
    /\ pc' = "annotator"
    /\ UNCHANGED <<db_path, rets, annotator_res, paper_list, query_paper_res,
                   session, session_filter, runs, sp, toolCalls, db>>
    /\ UNCHANGED <<toolVars, syncVars, cliVars>>

\* workflow.py 22-23: the content is a string, the annotator is called again
\* with that content
AnnotateRetry ==
    /\ pc = "while"
    /\ LoopCondition(annotator_res)
    /\ annotator_input' = annotator_res.text
    /\ calls' = BumpSat(calls, "annotator")
    /\ pc' = "annotator"
    /\ UNCHANGED <<db_path, rets, annotator_res, paper_list, query_paper_res,
                   session, session_filter, runs, sp, toolCalls, db>>
    /\ UNCHANGED <<toolVars, syncVars, cliVars>>

\* workflow.py 22, 24-27: the loop ends, paper_list is taken from the
\* response and query_paper is called
AnnotateExit ==
    /\ pc = "while"
    /\ ~LoopCondition(annotator_res)
    /\ paper_list' = annotator_res.paper_list
    /\ calls' = Bump(calls, "query_paper")
    /\ pc' = "query_paper"
    /\ UNCHANGED <<db_path, rets, annotator_input, annotator_res,
                   query_paper_res, session, session_filter, runs, sp,
                   toolCalls, db>>
    /\ UNCHANGED <<toolVars, syncVars, cliVars>>

\* ------------------------------------------------- PaperAgent.query_paper
\* workflow.py 40: session.query(Paper).filter(Paper.doi.in_(doi_list)).all()
PapersIn(rows, doi_list) ==
    SelectSeq(rows, LAMBDA r : \E i \in 1..Len(doi_list) : doi_list[i] = r.doi)

\* workflow.py 42, 44: doi_to_paper.get(doi); of several rows with one DOI
\* the dict comprehension keeps the last
doi_to_paper(papers, doi) ==
    papers[CHOOSE i \in 1..Len(papers) :
              /\ papers[i].doi = doi
              /\ \A j \in (i + 1)..Len(papers) : papers[j].doi # doi]

\* (mutant) a DOI without a row is skipped
RECURSIVE QueryLoopSkipping(_, _, _, _, _)
QueryLoopSkipping(list, idx, papers, filterRows, acc) ==
    IF idx > Len(list) THEN acc
    ELSE LET doi == list[idx].doi IN
         IF ~Existing(papers, doi)
         THEN QueryLoopSkipping(list, idx + 1, papers, filterRows, acc)
         ELSE LET paper == doi_to_paper(papers, doi)
                  entry == Row(paper.doi, paper.title, list[idx].category)
                  existing == Existing(QueryVisible(filterRows, acc.new), doi)
              IN  QueryLoopSkipping(list, idx + 1, papers, filterRows,
                            [acc EXCEPT
                               !.result = Append(@, entry),
                               !.new = IF existing THEN @
                                       ELSE Append(@, Row(doi, paper.title,
                                                          list[idx].category))])

\* workflow.py 43-72: the loop over doi_list from index idx on.
\* acc.raised: paper is None and paper.doi raised AttributeError (line 47);
\* acc.result: the entries appended to result; acc.new: the rows added to
\* session_filter.
RECURSIVE QueryLoop(_, _, _, _, _)
QueryLoop(list, idx, papers, filterRows, acc) ==
    IF idx > Len(list) THEN acc
    ELSE LET doi == list[idx].doi IN
         IF ~Existing(papers, doi) THEN [acc EXCEPT !.raised = TRUE]
         ELSE LET paper == doi_to_paper(papers, doi)
                  entry == Row(paper.doi, paper.title, list[idx].category)
                  existing == Existing(QueryVisible(filterRows, acc.new), doi)
              IN  QueryLoop(list, idx + 1, papers, filterRows,
                            [acc EXCEPT
                               !.result = Append(@, entry),
                               !.new = IF existing THEN @
                                       ELSE Append(@, Row(doi, paper.title,
                                                          list[idx].category))])

\* result.setdefault(category, []).append(...): the entries by category
GroupByCategory(entries) ==
    [c \in { entries[i].category : i \in 1..Len(entries) } |->
        SelectSeq(entries, LAMBDA e : e.category = c)]

QueryPaperOutcome ==
    LET doi_list == [i \in 1..Len(paper_list) |-> paper_list[i].doi]
        papers == PapersIn(db[get_database_session(db_path)], doi_list)
    IN  QueryLoop(paper_list, 1, papers, db[SessionFilterFile(db_path)],
                  [raised |-> FALSE, result |-> <<>>, new |-> <<>>])

\* workflow.py 32-73, 27-30: query_paper runs and returns its result; run
\* calls the reporter with it. Nothing is committed: the rows added to
\* session_filter stay in the session, which is dropped at the return.
QueryPaperReturns ==
    /\ pc = "query_paper"
    /\ ~QueryPaperOutcome.raised
    /\ session' = get_database_session(db_path)
    /\ session_filter' = [file |-> SessionFilterFile(db_path),
                          new |-> QueryPaperOutcome.new]
    /\ query_paper_res' = GroupByCategory(QueryPaperOutcome.result)
    /\ rets' = Bump(rets, "query_paper")
    /\ calls' = Bump(calls, "reporter")
    /\ pc' = "reporter"
    /\ UNCHANGED <<db_path, annotator_input, annotator_res, paper_list, runs,
                   sp, toolCalls, db>>
    /\ UNCHANGED <<toolVars, syncVars, cliVars>>

\* (mutant) the error of query_paper is swallowed and the reporter is called
QueryPaperRaisesSwallowed ==
    /\ pc = "query_paper"
    /\ QueryPaperOutcome.raised
    /\ session' = get_database_session(db_path)
    /\ session_filter' = [file |-> SessionFilterFile(db_path),
                          new |-> QueryPaperOutcome.new]
    /\ calls' = Bump(calls, "reporter")
    /\ pc' = "reporter"
    /\ UNCHANGED <<db_path, rets, annotator_input, annotator_res,
                   paper_list, query_paper_res, runs, sp, toolCalls, db>>
    /\ UNCHANGED <<toolVars, syncVars, cliVars>>

\* workflow.py 44-47: a DOI of paper_list has no row in the full-results
\* table; the AttributeError propagates out of query_paper and of run
QueryPaperRaises ==
    /\ pc = "query_paper"
    /\ QueryPaperOutcome.raised
    /\ session' = get_database_session(db_path)
    /\ session_filter' = [file |-> SessionFilterFile(db_path),
                          new |-> QueryPaperOutcome.new]
    /\ pc' = "raised"
    /\ UNCHANGED <<db_path, calls, rets, annotator_input, annotator_res,
                   paper_list, query_paper_res, runs, sp, toolCalls, db>>
    /\ UNCHANGED <<toolVars, syncVars, cliVars>>

\* workflow.py 30: the reporter returns and run returns its response
ReporterReturns ==
    /\ pc = "reporter"
    /\ rets' = Bump(rets, "reporter")
    /\ pc' = "done"
    /\ UNCHANGED <<db_path, calls, annotator_input, annotator_res, paper_list,
                   query_paper_res, session, session_filter, runs, sp,
                   toolCalls, db>>
    /\ UNCHANGED <<toolVars, syncVars, cliVars>>

\* workflow.py 30: an exception of the reporter propagates out of run
ReporterRaises ==
    /\ pc = "reporter"
    /\ pc' = "raised"
    /\ UNCHANGED <<db_path, calls, rets, annotator_input, annotator_res,
                   paper_list, query_paper_res, session, session_filter,
                   runs, sp, toolCalls, db>>
    /\ UNCHANGED <<toolVars, syncVars, cliVars>>

\* =================================================================
\* utils.py load_project_data
\* =================================================================
\* JSON values of the fields 'year' and 'title'; Absent: the key is missing
Absent == "<absent>"
JsonNull == "null"
EmptyString == "\"\""
ZeroNumber == "0"
FieldValues == {Absent, JsonNull, EmptyString, ZeroNumber, "\"2024\"", "\"T\""}

\* Python's truth value of a JSON value: None, "" and 0 are false
Truthy(v) == v \notin {JsonNull, EmptyString, ZeroNumber}

\* the entries of a category's list: dictionaries, and one that is none
JsonProjects ==
    { [kind |-> "dict", year |-> "\"2024\"", title |-> "\"T\""],
      [kind |-> "dict", year |-> Absent, title |-> "\"T\""],
      [kind |-> "dict", year |-> "\"2024\"", title |-> Absent],
      [kind |-> "dict", year |-> EmptyString, title |-> "\"T\""],
      [kind |-> "dict", year |-> "\"2024\"", title |-> JsonNull],
      [kind |-> "dict", year |-> ZeroNumber, title |-> "\"T\""],
      [kind |-> "other", year |-> Absent, title |-> Absent] }

\* the values of a category: a list of entries, or something else
JsonCategoryValues ==
    { [kind |-> "list", projects |-> ps] : ps \in SeqsUpTo(JsonProjects, MaxProjects) }
    \cup { [kind |-> "other", projects |-> <<>>] }

\* what json.load can give: a dictionary (its values in order), or not one
JsonData ==
    { [kind |-> "dict", items |-> cs] : cs \in SeqsUpTo(JsonCategoryValues, MaxCats) }
    \cup { [kind |-> "other", items |-> <<>>] }

NoData == [kind |-> "none", items |-> <<>>]

LpIdle == [pc |-> "idle", file |-> "none", data |-> NoData, ci |-> 1, pi |-> 1,
           result |-> "none"]

\* (mutant) only 'year' is required
ProjectErrorYearOnly(project) ==
    IF project.kind # "dict" THEN "must be a dictionary"
    ELSE IF project.year = Absent THEN "missing required fields"
    ELSE IF ~Truthy(project.year) THEN "has empty year or title"
    ELSE "ok"

\* utils.py 46-54: the checks of one project
ProjectError(project) ==
    IF project.kind # "dict" THEN "must be a dictionary"
    ELSE IF project.year = Absent \/ project.title = Absent
         THEN "missing required fields"
    ELSE IF ~Truthy(project.year) \/ ~Truthy(project.title)
         THEN "has empty year or title"
    ELSE "ok"

\* utils.py 27-38: the file is opened and parsed, the top level checked.
\* json.JSONDecodeError(msg) lacks two arguments, so line 34 raises TypeError.
LoadOpen ==
    /\ lp.pc = "start"
    /\ lp' = IF lp.file = "missing"
             THEN [lp EXCEPT !.pc = "raised", !.result = "FileNotFoundError"]
             ELSE IF lp.file = "malformed"
             THEN [lp EXCEPT !.pc = "raised", !.result = "TypeError"]
             ELSE IF lp.data.kind # "dict"
             THEN [lp EXCEPT !.pc = "raised", !.result = "ValueError"]
             ELSE [lp EXCEPT !.pc = "category", !.ci = 1]
    /\ UNCHANGED <<toolVars, pipeVars, cliVars, cp, mn, rd, ht>>

\* utils.py 41-43: the next category, whose value must be a list
LoadCategory ==
    /\ lp.pc = "category"
    /\ lp.ci <= Len(lp.data.items)
    /\ lp' = IF lp.data.items[lp.ci].kind # "list"
             THEN [lp EXCEPT !.pc = "raised", !.result = "ValueError"]
             ELSE [lp EXCEPT !.pc = "project", !.pi = 1]
    /\ UNCHANGED <<toolVars, pipeVars, cliVars, cp, mn, rd, ht>>

\* utils.py 45-54: the next project of the category, or the end of its list
LoadProject ==
    /\ lp.pc = "project"
    /\ LET projects == lp.data.items[lp.ci].projects
       IN  lp' = IF lp.pi > Len(projects)
                 THEN [lp EXCEPT !.pc = "category", !.ci = @ + 1]
                 ELSE IF ProjectError(projects[lp.pi]) # "ok"
                 THEN [lp EXCEPT !.pc = "raised", !.result = "ValueError"]
                 ELSE [lp EXCEPT !.pi = @ + 1]
    /\ UNCHANGED <<toolVars, pipeVars, cliVars, cp, mn, rd, ht>>

\* utils.py 56: every category passed, the data is returned
LoadReturn ==
    /\ lp.pc = "category"
    /\ lp.ci > Len(lp.data.items)
    /\ lp' = [lp EXCEPT !.pc = "returned", !.result = "data"]
    /\ UNCHANGED <<toolVars, pipeVars, cliVars, cp, mn, rd, ht>>

\* =================================================================
\* update_readme.py main / update_html.py main, and utils.py create_backup
\* =================================================================
\* The target's content is a version number: every write makes a new one.
NoBackup == [exists |-> FALSE, content |-> 0]

\* what a run leaves for the next one to look back at
NoRun == [script |-> "none", exit |-> "none", writes |-> 0, updated |-> "none"]

\* orig: the target's content when the run started; backup: the backup file
\* of this run; writes: the writes of this run; files: backup files on disk;
\* changes: changes_count of this run (-1: not computed yet); updated, stats:
\* what update_readme_file / update_html_file and update_html_stats
\* returned in this run; prev: the run before this one
MnIdle == [pc |-> "idle", script |-> "none", no_backup |-> FALSE,
           force |-> FALSE, target |-> 0, orig |-> 0, backup |-> NoBackup,
           backup_called |-> FALSE, writes |-> 0, exit |-> "none",
           runs |-> 0, files |-> 0, changes |-> -1, updated |-> "none",
           stats |-> "none", prev |-> NoRun]

\* utils.py 59-82: the backup file made of a file with that content, if any;
\* copy_ok: shutil.copy2 did not raise
create_backup(file_exists, flag, copy_ok, content) ==
    IF ~flag \/ ~file_exists THEN NoBackup
    ELSE IF copy_ok THEN [exists |-> TRUE, content |-> content]
    ELSE NoBackup

Written(m) == [m EXCEPT !.target = @ + 1, !.writes = @ + 1]

Exit(m, status) == [m EXCEPT !.pc = "exit", !.exit = status]

\* update_readme.py 264-281, update_html.py 378-395: the arguments are
\* parsed and the input files validated
MainStart(script, no_backup, force, files_ok) ==
    /\ mn.pc \in {"idle", "exit"}
    /\ mn.runs < MaxMainRuns
    /\ LET m == [mn EXCEPT !.script = script, !.no_backup = no_backup,
                           !.force = force, !.orig = mn.target,
                           !.backup = NoBackup, !.backup_called = FALSE,
                           !.writes = 0, !.exit = "none", !.runs = @ + 1,
                           !.changes = -1, !.updated = "none", !.stats = "none",
                           !.prev = [script |-> mn.script, exit |-> mn.exit,
                                     writes |-> mn.writes,
                                     updated |-> mn.updated]]
       IN  mn' = IF files_ok THEN [m EXCEPT !.pc = "load"] ELSE Exit(m, "1")
    /\ UNCHANGED <<toolVars, pipeVars, cliVars, cp, lp, rd, ht>>

\* update_readme.py 283-292, 331-333: load_project_data returns or raises
MainLoad(loaded) ==
    /\ mn.pc = "load"
    /\ mn' = IF loaded THEN [mn EXCEPT !.pc = "compare"] ELSE Exit(mn, "1")
    /\ UNCHANGED <<toolVars, pipeVars, cliVars, cp, lp, rd, ht>>

\* (mutant) --force is not looked at
MainCompareNoForce(changes_count) ==
    /\ mn.pc = "compare"
    /\ mn' = IF changes_count = 0
             THEN Exit([mn EXCEPT !.changes = changes_count], "0")
             ELSE [mn EXCEPT !.pc = "backup", !.changes = changes_count]
    /\ UNCHANGED <<toolVars, pipeVars, cliVars, cp, lp, rd, ht>>

\* update_readme.py 294-299: nothing to do unless changes or --force
MainCompare(changes_count) ==
    /\ mn.pc = "compare"
    /\ mn' = IF changes_count = 0 /\ ~mn.force
             THEN Exit([mn EXCEPT !.changes = changes_count], "0")
             ELSE [mn EXCEPT !.pc = "backup", !.changes = changes_count]
    /\ UNCHANGED <<toolVars, pipeVars, cliVars, cp, lp, rd, ht>>

\* (mutant) the backup step is left out
MainBackupSkipped ==
    /\ mn.pc = "backup"
    /\ mn' = [mn EXCEPT !.pc = "update"]
    /\ UNCHANGED <<toolVars, pipeVars, cliVars, cp, lp, rd, ht>>

\* update_readme.py 309-311, update_html.py 423-425: create_backup is
\* called unless --no-backup; its return value is not looked at
MainBackup ==
    /\ mn.pc = "backup"
    /\ \E copy_ok \in BOOLEAN :
          LET made == create_backup(TRUE, TRUE, copy_ok, mn.target)
          IN  mn' = IF mn.no_backup THEN [mn EXCEPT !.pc = "update"]
                    ELSE [mn EXCEPT !.pc = "update", !.backup_called = TRUE,
                                    !.backup = made,
                                    !.files = IF made.exists THEN @ + 1 ELSE @]
    /\ UNCHANGED <<toolVars, pipeVars, cliVars, cp, lp, rd, ht>>

FileOutcomes == {"read_error", "unchanged", "open_error", "write_error", "written"}

\* update_readme.py 313-329 with update_readme_file 201-249;
\* update_html.py 427-446 with update_html_file 148-172.
\* A failed write may have truncated the file already.
MainUpdate(outcome) ==
    /\ mn.pc = "update"
    /\ outcome = "unchanged" => mn.script = "html"
    /\ mn' = CASE outcome \in {"read_error", "unchanged", "open_error"} ->
                      Exit([mn EXCEPT !.updated = "False"], "1")
               [] outcome = "write_error" ->
                      Exit([Written(mn) EXCEPT !.updated = "False"], "1")
               [] outcome = "written" /\ mn.script = "readme" ->
                      Exit([Written(mn) EXCEPT !.updated = "True"], "0")
               [] outcome = "written" /\ mn.script = "html" ->
                      [Written(mn) EXCEPT !.pc = "stats", !.updated = "True"]
    /\ UNCHANGED <<toolVars, pipeVars, cliVars, cp, lp, rd, ht>>

\* (mutant) a failed statistics update fails the run
MainStatsStrict(outcome) ==
    /\ mn.pc = "stats"
    /\ outcome # "unchanged"
    /\ mn' = IF outcome = "written"
             THEN Exit([Written(mn) EXCEPT !.stats = "True"], "0")
             ELSE Exit([mn EXCEPT !.stats = "False"], "1")
    /\ UNCHANGED <<toolVars, pipeVars, cliVars, cp, lp, rd, ht>>

\* update_html.py 436-443 with update_html_stats 186-361: the statistics
\* are rewritten; the exit status is 0 whatever the outcome
MainStats(outcome) ==
    /\ mn.pc = "stats"
    /\ outcome # "unchanged"
    /\ mn' = CASE outcome = "written" ->
                      Exit([Written(mn) EXCEPT !.stats = "True"], "0")
               [] outcome = "write_error" ->
                      Exit([Written(mn) EXCEPT !.stats = "False"], "0")
               [] OTHER -> Exit([mn EXCEPT !.stats = "False"], "0")
    /\ UNCHANGED <<toolVars, pipeVars, cliVars, cp, lp, rd, ht>>

\* =================================================================
\* Text
\* =================================================================
\* A text is a sequence of tokens: the characters the code looks at ("#",
\* " ", newline, "|", "\", ...) one by one, and words that stand for runs of
\* other characters.
NL == "\n"
WhiteSpace == {" ", NL, "\t", "\r"}

SetMin(S) == CHOOSE x \in S : \A y \in S : x <= y
SetMax(S) == CHOOSE x \in S : \A y \in S : x >= y

\* the concatenation of the texts of parts
RECURSIVE Concat(_)
Concat(parts) ==
    IF Len(parts) = 0 THEN <<>>
    ELSE IF Len(parts) = 1 THEN parts[1]
    ELSE Concat(SubSeq(parts, 1, Len(parts) \div 2))
         \o Concat(SubSeq(parts, Len(parts) \div 2 + 1, Len(parts)))

\* sep.join(parts)
Join(parts, sep) ==
    Concat([i \in 1..Len(parts) |-> IF i = 1 THEN parts[1] ELSE sep \o parts[i]])

\* text.split(sep), sep one token
RECURSIVE Split(_, _)
Split(text, sep) ==
    LET at == { i \in 1..Len(text) : text[i] = sep }
    IN  IF at = {} THEN <<text>>
        ELSE <<SubSeq(text, 1, SetMin(at) - 1)>>
             \o Split(SubSeq(text, SetMin(at) + 1, Len(text)), sep)

\* text.rstrip(), text.lstrip()
RECURSIVE RStrip(_)
RStrip(text) ==
    IF Len(text) > 0 /\ text[Len(text)] \in WhiteSpace
    THEN RStrip(SubSeq(text, 1, Len(text) - 1)) ELSE text

RECURSIVE LStrip(_)
LStrip(text) ==
    IF Len(text) > 0 /\ text[1] \in WhiteSpace THEN LStrip(Tail(text)) ELSE text

\* text.replace(old, new), old one token
ReplaceToken(text, old, new) ==
    Concat([i \in 1..Len(text) |-> IF text[i] = old THEN new ELSE <<text[i]>>])

\* text.split(): the runs of tokens between white space
RECURSIVE Words(_)
Words(text) ==
    LET t == LStrip(text)
        ws == { i \in 1..Len(t) : t[i] \in WhiteSpace }
    IN  IF t = <<>> THEN <<>>
        ELSE IF ws = {} THEN <<t>>
        ELSE <<SubSeq(t, 1, SetMin(ws) - 1)>> \o Words(SubSeq(t, SetMin(ws), Len(t)))

\* text[p:] starts with pat
HasAt(text, p, pat) ==
    /\ p + Len(pat) - 1 <= Len(text)
    /\ SubSeq(text, p, p + Len(pat) - 1) = pat

\* the last position of the run of white space that starts at q (q - 1 if
\* text[q] is no white space)
RECURSIVE WsRunEnd(_, _)
WsRunEnd(text, q) ==
    IF q <= Len(text) /\ text[q] \in WhiteSpace THEN WsRunEnd(text, q + 1)
    ELSE q - 1

\* =================================================================
\* update_readme.py: generate_markdown_table and update_readme_file
\* =================================================================
\* utils.py 122-142
escape_markdown(text) ==
    IF text = <<>> THEN <<>>
    ELSE Join(Words(ReplaceToken(ReplaceToken(ReplaceToken(text, "|", <<"\\", "|">>),
                                              NL, <<" ">>),
                                 "\r", <<" ">>)),
              <<" ">>)

\* utils.py 201-219; the last line is the fallback
\* category_key.replace('-', ' ').title() for the one key outside the table
get_category_display_name(category_key) ==
    CASE category_key = "ai-agents" -> "AI Agents"
      [] category_key = "foundation-models" -> "Foundation models"
      [] category_key = "ai-tools" -> "AI Tools"
      [] category_key = "databases" -> "Databases/Simulation"
      [] category_key = "benchmarks" -> "Benchmarks"
      [] category_key = "reviews" -> "Reviews"
      [] category_key = "my-tools" -> "My Tools"

\* utils.py 222-233
get_category_columns(category_key) ==
    <<"Year", "Title", "Team", "Team Website", "Affiliation", "Domain",
      "Venue", "Paper/ Source", "Code/Product">>

\* update_readme.py 131: "-" * (len(col) + 1)
Dashes(col) ==
    CASE col = "Year" -> "-----"
      [] col = "Title" -> "------"
      [] col = "Team" -> "-----"
      [] col = "Team Website" -> "-------------"
      [] col = "Affiliation" -> "------------"
      [] col = "Domain" -> "-------"
      [] col = "Venue" -> "------"
      [] col = "Paper/ Source" -> "--------------"
      [] col = "Code/Product" -> "-------------"

StartsWithHttp(text) == text # <<>> /\ text[1] \in {"http://", "https://"}

\* update_readme.py 138-181: the cell of one column
Cell(project, col) ==
    CASE col = "Year" -> escape_markdown(project.year)
      [] col = "Title" ->
            IF escape_markdown(project.title) # <<>>
            THEN <<"**">> \o escape_markdown(project.title) \o <<"**">>
            ELSE <<>>
      [] col = "Team" -> escape_markdown(project.team)
      [] col = "Team Website" ->
            IF project.team_website # <<>>
            THEN <<"[Link](">> \o project.team_website \o <<")">> ELSE <<>>
      [] col = "Affiliation" -> escape_markdown(project.affiliation)
      [] col = "Domain" -> escape_markdown(project.domain)
      [] col = "Venue" -> escape_markdown(project.venue)
      [] col = "Paper/ Source" ->
            IF project.paperUrl # <<>>
            THEN <<"[Link](">> \o project.paperUrl \o <<")">> ELSE <<>>
      [] col = "Code/Product" ->
            IF project.codeUrl = <<>> THEN <<>>
            ELSE <<"[Link](">> \o project.codeUrl \o <<")">>
                 \o (IF project.githubStars = <<>> THEN <<>>
                     ELSE IF StartsWithHttp(project.githubStars)
                     THEN <<" ", "![GitHub Stars](">> \o project.githubStars \o <<")">>
                     ELSE <<" ", "![GitHub Stars](",
                            "https://img.shields.io/github/stars/">>
                          \o project.githubStars \o <<")">>)

\* update_readme.py 113-187
generate_markdown_table(projects, category) ==
    LET columns == get_category_columns(category)
        header == <<"|", " ">>
                  \o Join([i \in 1..Len(columns) |-> <<columns[i]>>], <<" ", "|", " ">>)
                  \o <<" ", "|">>
        separator == <<"|">>
                     \o Join([i \in 1..Len(columns) |-> <<" ", Dashes(columns[i])>>], <<"|">>)
                     \o <<"|">>
        row(project) == <<"|", " ">>
                        \o Join([i \in 1..Len(columns) |-> Cell(project, columns[i])],
                                <<" ", "|", " ">>)
                        \o <<" ", "|">>
    IN  IF projects = <<>> THEN <<>>
        ELSE Join(<<header, separator>> \o [i \in 1..Len(projects) |-> row(projects[i])],
                  <<NL>>)

\* update_readme.py 315-320: the tables main hands to update_readme_file
RECURSIVE NewTables(_)
NewTables(source_data) ==
    IF source_data = <<>> THEN <<>>
    ELSE LET table == generate_markdown_table(Head(source_data).projects,
                                              Head(source_data).category)
         IN  (IF table # <<>>
              THEN <<[category |-> Head(source_data).category, table |-> table]>>
              ELSE <<>>)
             \o NewTables(Tail(source_data))

\* update_readme.py 217, group 1: '## <name>\s*\n' matched at p ends at the
\* last newline of the white space after the name (0: no match at p)
HeaderEnd(text, p, section_name) ==
    LET q == p + 4
        nls == { k \in q..WsRunEnd(text, q) : text[k] = NL }
    IN  IF HasAt(text, p, <<"#", "#", " ", section_name>>) /\ nls # {}
        THEN SetMax(nls) ELSE 0

\* update_readme.py 217, the lookahead (?=\n## |\n# |\Z) at q
SectionAhead(text, q) ==
    \/ q = Len(text) + 1
    \/ HasAt(text, q, <<NL, "#", "#", " ">>)
    \/ HasAt(text, q, <<NL, "#", " ">>)

\* update_readme.py 217, group 2: '(.*?)' from g ends before the first
\* position where the lookahead matches
BodyEnd(text, g) ==
    SetMin({ q \in g..(Len(text) + 1) : SectionAhead(text, q) }) - 1

\* update_readme.py 229: line.strip().startswith('|')
IsTableLine(line) == LStrip(line) # <<>> /\ LStrip(line)[1] = "|"

\* update_readme.py 219-238
replace_section(section_header, existing_content, table_content) ==
    LET lines == Split(existing_content, NL)
        tables == { i \in 1..Len(lines) : IsTableLine(lines[i]) }
        table_start == IF tables = {} THEN 0 ELSE SetMin(tables) - 1
        before_table == RStrip(Join(SubSeq(lines, 1, table_start), <<NL>>))
    IN  section_header
        \o (IF before_table # <<>> THEN before_table \o <<NL, NL>> ELSE <<>>)
        \o table_content \o <<NL>>

\* update_readme.py 240: re.sub over the text from pos on
RECURSIVE SubSections(_, _, _, _)
SubSections(text, pos, section_name, table_content) ==
    LET starts == { p \in pos..Len(text) : HeaderEnd(text, p, section_name) # 0 }
    IN  IF starts = {} THEN SubSeq(text, pos, Len(text))
        ELSE LET p == SetMin(starts)
                 g == HeaderEnd(text, p, section_name) + 1
                 e == BodyEnd(text, g)
             IN  SubSeq(text, pos, p - 1)
                 \o replace_section(SubSeq(text, p, g - 1), SubSeq(text, g, e),
                                    table_content)
                 \o SubSections(text, e + 1, section_name, table_content)

\* update_readme.py 209-240: the sections of new_tables, one after the other
RECURSIVE UpdateSections(_, _)
UpdateSections(content, new_tables) ==
    IF new_tables = <<>> THEN content
    ELSE UpdateSections(
            IF Head(new_tables).table = <<>> THEN content
            ELSE SubSections(content, 1,
                             get_category_display_name(Head(new_tables).category),
                             Head(new_tables).table),
            Tail(new_tables))

\* the lines a README of the model is made of
ReadmeLines ==
    { <<"#", "#", " ", "AI Agents">>,
      <<"#", "#", " ", "Reviews">>,
      <<"#", "#", " ", "Other">>,
      <<"#", " ", "Top">>,
      <<>>,
      <<"text">>,
      <<"|", " ", "old", " ", "|">> }

EmptyProject ==
    [year |-> <<>>, title |-> <<>>, team |-> <<>>, team_website |-> <<>>,
     affiliation |-> <<>>, domain |-> <<>>, venue |-> <<>>, paperUrl |-> <<>>,
     codeUrl |-> <<>>, githubStars |-> <<>>]

\* projects of the model: a plain one, one with a "|" and a newline in its
\* title, one with code and stars, one whose paperUrl holds a newline
ProjectPlain ==
    [EmptyProject EXCEPT !.year = <<"2024">>, !.title = <<"T">>,
                         !.paperUrl = <<"http://", "x">>]
ProjectPipe ==
    [EmptyProject EXCEPT !.year = <<"2023">>, !.title = <<"T", "|", NL, " ", "U">>]
ProjectCode ==
    [EmptyProject EXCEPT !.year = <<"2024">>, !.title = <<"U">>,
                         !.codeUrl = <<"http://", "c">>, !.githubStars = <<"o/r">>]
ProjectUrlNewline ==
    [EmptyProject EXCEPT !.year = <<"2024">>, !.title = <<"T">>,
                         !.paperUrl = <<"http://", "x", NL, "#", "#", " ", "y">>]

\* project data of the model, the categories in the order of the JSON file
ReadmeSources ==
    { <<[category |-> "ai-agents", projects |-> <<ProjectPlain>>]>>,
      <<[category |-> "ai-agents", projects |-> <<ProjectPlain, ProjectCode>>],
        [category |-> "reviews", projects |-> <<ProjectPipe>>]>>,
      <<[category |-> "reviews", projects |-> <<ProjectCode>>],
        [category |-> "ai-agents", projects |-> <<>>]>>,
      <<[category |-> "ai-agents", projects |-> <<ProjectUrlNewline>>]>> }

RdIdle == [pc |-> "idle", content |-> <<>>, orig |-> <<>>, new_tables |-> <<>>, applied |-> 0,
           first |-> <<>>, ok |-> TRUE, source |-> <<>>]

IoOutcomes == {"ok", "read_error", "write_error"}

\* update_readme.py 190-249: the file is read, the sections replaced and the
\* file written; a file that cannot be read or opened for writing is left as
\* it is and False returned.  applied counts the calls that wrote the file.
UpdateReadmeFile(io) ==
    /\ rd.pc = "file"
    /\ rd.applied < MaxApply
    /\ rd' = IF io # "ok" THEN [rd EXCEPT !.ok = FALSE]
             ELSE LET updated == UpdateSections(rd.content, rd.new_tables)
                  IN  [rd EXCEPT !.content = updated,
                                 !.applied = @ + 1,
                                 !.first = IF rd.applied = 0 THEN updated ELSE @,
                                 !.ok = TRUE]
    /\ UNCHANGED <<toolVars, pipeVars, cliVars, cp, lp, mn, ht>>

\* =================================================================
\* update_html.py: generate_js_object and update_html_file
\* =================================================================
\* utils.py 145-166
escape_javascript(text) ==
    IF text = <<>> THEN <<>>
    ELSE ReplaceToken(ReplaceToken(ReplaceToken(ReplaceToken(ReplaceToken(
             ReplaceToken(text, "\\", <<"\\", "\\">>),
             "\"", <<"\\", "\"">>),
             "'", <<"\\", "'">>),
             NL, <<"\\", "n">>),
             "\r", <<"\\", "r">>),
             "\t", <<"\\", "t">>)

\* JSON values: [kind, items, text]; the items of a dict are <<key, value>>
\* pairs in the order of the file, text is the string or str(value)
JsStr(text) == [kind |-> "str", items |-> <<>>, text |-> text]
JsNum(text) == [kind |-> "num", items |-> <<>>, text |-> text]
JsNull == [kind |-> "null", items |-> <<>>, text |-> <<>>]
JsList(items) == [kind |-> "list", items |-> items, text |-> <<>>]
JsDict(items) == [kind |-> "dict", items |-> items, text |-> <<>>]

\* update_html.py 86-98
format_value(value) ==
    CASE value.kind = "str" -> <<"\"">> \o escape_javascript(value.text) \o <<"\"">>
      [] value.kind = "num" -> value.text
      [] value.kind = "null" -> <<"null">>

\* "    " * indent_level
Indent(indent_level) == [i \in 1..(4 * indent_level) |-> " "]

\* update_html.py 100-132
RECURSIVE format_object(_, _)
format_object(obj, indent_level) ==
    LET indent == Indent(indent_level)
        next_indent == Indent(indent_level + 1)
        n == Len(obj.items)
        comma(i) == IF i < n THEN <<",">> ELSE <<>>
    IN  CASE obj.kind = "dict" ->
               IF n = 0 THEN <<"{", "}">>
               ELSE Join(<<<<"{">>>>
                         \o [i \in 1..n |->
                               next_indent \o <<"\"", obj.items[i][1], "\"", ":", " ">>
                               \o format_object(obj.items[i][2], indent_level + 1)
                               \o comma(i)]
                         \o <<indent \o <<"}">>>>,
                         <<NL>>)
          [] obj.kind = "list" ->
               IF n = 0 THEN <<"[", "]">>
               ELSE Join(<<<<"[">>>>
                         \o [i \in 1..n |->
                               next_indent
                               \o format_object(obj.items[i], indent_level + 1)
                               \o comma(i)]
                         \o <<indent \o <<"]">>>>,
                         <<NL>>)
          [] OTHER -> format_value(obj)

\* update_html.py 76-134
generate_js_object(project_data) == format_object(project_data, 1)

\* update_html.py 159: re.sub reads the replacement from the left, a
\* backslash and the token after it together: the backslash at i starts such
\* a pair when an even number of backslashes stands right before it
EscapeAt(template, i) ==
    /\ i < Len(template)
    /\ template[i] = "\\"
    /\ LET others == { k \in 1..(i - 1) : template[k] # "\\" }
       IN  (i - 1 - (IF others = {} THEN 0 ELSE SetMax(others))) % 2 = 0

\* update_html.py 159: re.sub expands the escapes of the replacement: "\\"
\* gives one backslash, "\n", "\r", "\t" the control character, a backslash
\* before a quote stays
ExpandTemplate(template) ==
    Concat([i \in 1..Len(template) |->
              IF EscapeAt(template, i)
              THEN CASE template[i + 1] = "\\" -> <<"\\">>
                     [] template[i + 1] = "n" -> <<NL>>
                     [] template[i + 1] = "r" -> <<"\r">>
                     [] template[i + 1] = "t" -> <<"\t">>
                     [] OTHER -> <<"\\", template[i + 1]>>
              ELSE IF i > 1 /\ EscapeAt(template, i - 1) THEN <<>>
              ELSE <<template[i]>>])

\* update_html.py 156, group 1: 'const\s+projectData\s*=\s*' matched at p;
\* the position of the "{" after it (0: no match at p)
AssignBrace(text, p) ==
    LET a == WsRunEnd(text, p + 1)
        b == WsRunEnd(text, a + 2)
        c == WsRunEnd(text, b + 2)
    IN  IF /\ HasAt(text, p, <<"const">>)
           /\ a >= p + 1
           /\ HasAt(text, a + 1, <<"projectData">>)
           /\ HasAt(text, b + 1, <<"=">>)
           /\ HasAt(text, c + 1, <<"{">>)
        THEN c + 1 ELSE 0

\* update_html.py 156: '\{.*?\};' from the "{" at o ends at the first "};"
\* after it (0: there is none)
ObjectEnd(text, o) ==
    LET ends == { q \in (o + 1)..(Len(text) - 1) : text[q] = "}" /\ text[q + 1] = ";" }
    IN  IF ends = {} THEN 0 ELSE SetMin(ends) + 1

AssignmentAt(text, p) ==
    AssignBrace(text, p) # 0 /\ ObjectEnd(text, AssignBrace(text, p)) # 0

\* update_html.py 159: re.sub over the text from pos on
RECURSIVE SubAssignments(_, _, _)
SubAssignments(text, pos, expanded) ==
    LET starts == { p \in pos..Len(text) : AssignmentAt(text, p) }
    IN  IF starts = {} THEN SubSeq(text, pos, Len(text))
        ELSE LET p == SetMin(starts)
                 o == AssignBrace(text, p)
             IN  SubSeq(text, pos, o - 1) \o expanded
                 \o SubAssignments(text, ObjectEnd(text, o) + 1, expanded)

\* the pieces an HTML file of the model is made of
HtmlChunks ==
    { <<"<script>">>,
      <<"const", " ", "projectData", " ", "=", " ", "{", "old", ":", " ", "1", "}", ";">>,
      <<"const", NL, "projectData", "=", "{", "}", ";">>,
      <<"const", " ", "other", " ", "=", " ", "{", "}", ";">>,
      <<"foo", "(", ")", ";">>,
      <<"}", ";">>,
      <<NL>> }

\* project data of the model
HtmlProject(year, title) == JsDict(<< <<"year", year>>, <<"title", title>> >>)

HtmlData ==
    { JsDict(<<>>),
      JsDict(<< <<"ai-agents", JsList(<<HtmlProject(JsStr(<<"2024">>), JsStr(<<"T">>))>>)>>,
                <<"reviews", JsList(<<>>)>> >>),
      JsDict(<< <<"ai-agents",
                  JsList(<<HtmlProject(JsNum(<<"2024">>), JsStr(<<"q", "\"", "q", NL, "\\">>)),
                           HtmlProject(JsStr(<<"2023">>), JsNull)>>)>> >>),
      JsDict(<< <<"ai-agents",
                  JsList(<<HtmlProject(JsStr(<<"2024">>), JsStr(<<"a", "}", ";", "b">>))>>)>> >>) }

\* ok: what the latest call returned; last: how the latest call ended;
\* before: the content when the latest call began
HtIdle == [pc |-> "idle", content |-> <<>>, orig |-> <<>>, new_js_data |-> <<>>,
           applied |-> 0, first |-> <<>>, ok |-> TRUE, last |-> "none",
           before |-> <<>>]

\* update_html.py 137-172: the file is read and the assignments replaced; a
\* content the substitution leaves as it was is not written and False
\* returned, as for a file that cannot be read or opened for writing.
\* applied counts the calls that got past the file operations.
UpdateHtmlFile(io) ==
    /\ ht.pc = "file"
    /\ ht.applied < MaxApply
    /\ LET updated_content ==
               SubAssignments(ht.content, 1, ExpandTemplate(ht.new_js_data \o <<";">>))
           h == [ht EXCEPT !.before = ht.content]
       IN  ht' = IF io = "read_error"
                 THEN [h EXCEPT !.ok = FALSE, !.last = "read_error"]
                 ELSE IF updated_content = ht.content
                 THEN [h EXCEPT !.applied = @ + 1,
                                !.first = IF ht.applied = 0 THEN ht.content ELSE @,
                                !.ok = FALSE, !.last = "unchanged"]
                 ELSE IF io = "write_error"
                 THEN [h EXCEPT !.ok = FALSE, !.last = "write_error"]
                 ELSE [h EXCEPT !.content = updated_content,
                                !.applied = @ + 1,
                                !.first = IF ht.applied = 0 THEN updated_content ELSE @,
                                !.ok = TRUE, !.last = "written"]
    /\ UNCHANGED <<toolVars, pipeVars, cliVars, cp, lp, mn, rd>>

\* =================================================================
\* utils.py compare_project_data
\* =================================================================
\* A dict of project data is a function from its category keys to values.

\* (mutant) only the keys of the two dicts are compared
compare_keys_only(source, target) ==
    [added_categories |-> DOMAIN source \ DOMAIN target,
     removed_categories |-> DOMAIN target \ DOMAIN source,
     modified_categories |-> {},
     changes_count |-> Cardinality(DOMAIN source \ DOMAIN target)
                       + Cardinality(DOMAIN target \ DOMAIN source)]

\* utils.py 85-119; the three lists are given as sets, the order in which
\* list(set) puts them is not fixed
compare_project_data(source, target) ==
    LET added == DOMAIN source \ DOMAIN target
        removed == DOMAIN target \ DOMAIN source
        modified == { category \in DOMAIN source \cap DOMAIN target :
                        source[category] # target[category] }
    IN  [added_categories |-> added,
         removed_categories |-> removed,
         modified_categories |-> modified,
         changes_count |-> Cardinality(added) + Cardinality(removed)
                           + Cardinality(modified)]

\* the dicts of the model: up to three categories, each with one of a few
\* project lists
CompareCategories == {"ai-agents", "reviews", "databases"}

CompareLists ==
    { <<>>,
      <<[year |-> "2024", title |-> "T"]>>,
      <<[year |-> "2024", title |-> "T"], [year |-> "2023", title |-> "U"]>> }

CompareDicts ==
    UNION { [keys -> CompareLists] : keys \in SUBSET CompareCategories }

CpIdle == [pc |-> "idle", source |-> <<>>, target |-> <<>>,
           differences |-> [added_categories |-> {}, removed_categories |-> {},
                            modified_categories |-> {}, changes_count |-> 0]]

\* utils.py 85-119
CompareProjectData ==
    /\ cp.pc = "called"
    /\ cp' = [cp EXCEPT !.pc = "returned",
                        !.differences = compare_project_data(cp.source, cp.target)]
    /\ UNCHANGED <<toolVars, pipeVars, cliVars, lp, mn, rd, ht>>

\* =================================================================
\* update_readme.py: parse_readme_tables, and main on a README file
\* =================================================================
\* text.strip()
Strip(text) == RStrip(LStrip(text))

\* update_readme.py 55: '## ([^#\n]+)\n' matched at p: the title runs from
\* p + 3 over the tokens that are neither "#" nor a newline and must be
\* followed by a newline; the position of that newline (0: no match at p)
TitleEnd(text, p) ==
    LET stops == { k \in (p + 3)..Len(text) : text[k] \in {"#", NL} }
        r == IF stops = {} THEN Len(text) ELSE SetMin(stops) - 1
    IN  IF /\ HasAt(text, p, <<"#", "#", " ">>)
           /\ r >= p + 3
           /\ r + 1 <= Len(text)
           /\ text[r + 1] = NL
        THEN r + 1 ELSE 0

\* update_readme.py 55-56: re.findall over the text from pos on gives the
\* (section_title, section_content) pairs
RECURSIVE FindSections(_, _)
FindSections(text, pos) ==
    LET starts == { p \in pos..Len(text) : TitleEnd(text, p) # 0 }
    IN  IF starts = {} THEN <<>>
        ELSE LET p == SetMin(starts)
                 n == TitleEnd(text, p)
                 e == BodyEnd(text, n + 1)
             IN  <<[title |-> SubSeq(text, p + 3, n - 1),
                    content |-> SubSeq(text, n + 1, e)]>>
                 \o FindSections(text, e + 1)

\* str.lower() of one token, with ' ' and '/' replaced by '_' (update_readme.py
\* 87); the other tokens of the model hold no upper case letter
KeyToken(token) ==
    CASE token = "Year" -> "year"
      [] token = "Title" -> "title"
      [] token = "Team" -> "team"
      [] token = "Team Website" -> "team_website"
      [] token = "Affiliation" -> "affiliation"
      [] token = "Domain" -> "domain"
      [] token = "Venue" -> "venue"
      [] token = "Paper/ Source" -> "paper__source"
      [] token = "Code/Product" -> "code_product"
      [] token = "T" -> "t"
      [] token = "U" -> "u"
      [] token = "[Link](" -> "[link]("
      [] token = "![GitHub Stars](" -> "![github_stars]("
      [] token = " " -> "_"
      [] OTHER -> token

\* update_readme.py 77, 82: [c.strip() for c in line.split('|')[1:-1]]
SplitCells(line) ==
    LET parts == Split(line, "|")
    IN  [i \in 1..(Len(parts) - 2) |-> Strip(parts[i + 1])]

\* update_readme.py 84-88: the dict of one data row, as the set of its
\* (key, value) pairs; of two columns with one key the later one stays
RowProject(columns, cells) ==
    LET key(i) == [k \in 1..Len(columns[i]) |-> KeyToken(columns[i][k])]
    IN  { <<key(i), cells[i]>> : i \in { j \in 1..Len(columns) :
                \A l \in (j + 1)..Len(columns) : key(l) # key(j) } }

\* update_readme.py 66-88: the projects of one section's table
SectionProjects(section_content) ==
    LET lines == Split(Strip(section_content), NL)
        table_lines == SelectSeq(lines, IsTableLine)
        columns == SplitCells(table_lines[1])
        data_lines == SubSeq(table_lines, 3, Len(table_lines))
        rows == SelectSeq(data_lines,
                          LAMBDA line : Len(SplitCells(line)) >= Len(columns))
    IN  [i \in 1..Len(rows) |-> RowProject(columns, SplitCells(rows[i]))]

\* update_readme.py 62, 69: sections without a table of three lines are skipped
HasTable(section_content) ==
    /\ \E i \in 1..Len(section_content) : section_content[i] = "|"
    /\ Len(SelectSeq(Split(Strip(section_content), NL), IsTableLine)) >= 3

\* update_readme.py 91-106: the category key of a section title; a key is a
\* text of one token, the fallback gives the lower case title with '-' for ' '
SectionCategory(section_title) ==
    LET has(name) == \E i \in 1..Len(section_title) : section_title[i] = name
    IN  CASE has("AI Agents") -> <<"ai-agents">>
          [] has("Foundation models") -> <<"foundation-models">>
          [] has("AI Tools") -> <<"ai-tools">>
          [] has("Databases/Simulation") -> <<"databases">>
          [] has("Benchmarks") -> <<"benchmarks">>
          [] has("Reviews") -> <<"reviews">>
          [] OTHER -> [k \in 1..Len(section_title) |->
                          CASE section_title[k] = " " -> "-"
                            [] section_title[k] = "Other" -> "other"
                            [] section_title[k] = "Top" -> "top"
                            [] OTHER -> KeyToken(section_title[k])]

\* update_readme.py 31-110: the dict from category keys to project lists; of
\* two sections with one key the later one stays
parse_readme_tables(content) ==
    LET sections == SelectSeq(FindSections(content, 1),
                              LAMBDA sec : HasTable(sec.content))
        category(i) == SectionCategory(Strip(sections[i].title))
        last(c) == SetMax({ i \in 1..Len(sections) : category(i) = c })
    IN  [c \in { category(i) : i \in 1..Len(sections) } |->
            SectionProjects(sections[last(c)].content)]

\* the JSON keys of a project and the fields that hold their values; the
\* JSON of the model has a key when the value is not empty
ProjectDict(project) ==
    { pair \in { <<<<"year">>, project.year>>, <<<<"title">>, project.title>>,
                 <<<<"team">>, project.team>>,
                 <<<<"team website">>, project.team_website>>,
                 <<<<"affiliation">>, project.affiliation>>,
                 <<<<"domain">>, project.domain>>, <<<<"venue">>, project.venue>>,
                 <<<<"paperUrl">>, project.paperUrl>>,
                 <<<<"codeUrl">>, project.codeUrl>>,
                 <<<<"githubStars">>, project.githubStars>> } : pair[2] # <<>> }

\* update_readme.py 286: the dict load_project_data returns for the JSON file
SourceDict(source_data) ==
    [c \in { <<source_data[i].category>> : i \in 1..Len(source_data) } |->
        LET i == CHOOSE j \in 1..Len(source_data) : source_data[j].category = c[1]
        IN  [k \in 1..Len(source_data[i].projects) |->
                ProjectDict(source_data[i].projects[k])]]

\* update_readme.py 286-299 on the README and the JSON of rd; orig is the
\* README text this run has read
ReadmeCompare ==
    /\ mn.pc = "compare"
    /\ mn.script = "readme"
    /\ rd.pc = "file"
    /\ LET changes_count ==
               compare_project_data(SourceDict(rd.source),
                                    parse_readme_tables(rd.content)).changes_count
       IN  mn' = IF changes_count = 0 /\ ~mn.force
                 THEN Exit([mn EXCEPT !.changes = changes_count], "0")
                 ELSE [mn EXCEPT !.pc = "backup", !.changes = changes_count]
    /\ rd' = [rd EXCEPT !.orig = rd.content]
    /\ UNCHANGED <<toolVars, pipeVars, cliVars, cp, lp, ht>>

\* update_readme.py 313-329 with update_readme_file 190-249 on the README
\* of rd
ReadmeUpdate(io) ==
    /\ mn.pc = "update"
    /\ mn.script = "readme"
    /\ rd.pc = "file"
    /\ rd' = IF io # "ok" THEN [rd EXCEPT !.ok = FALSE]
             ELSE [rd EXCEPT !.content = UpdateSections(rd.content,
                                                        NewTables(rd.source)),
                             !.ok = TRUE]
    /\ mn' = IF io # "ok" THEN Exit([mn EXCEPT !.updated = "False"], "1")
             ELSE Exit([Written(mn) EXCEPT !.updated = "True"], "0")
    /\ UNCHANGED <<toolVars, pipeVars, cliVars, cp, lp, ht>>

\* =================================================================
\* update_all.py: run_script and main
\* =================================================================
UaIdle == [pc |-> "idle", json_exists |-> FALSE, readme_only |-> FALSE,
           html_only |-> FALSE, common_args |-> {}, counted |-> FALSE,
           success_count |-> 0, total_updates |-> 0, attempts |-> <<>>,
           ret |-> "none"]

\* what a run_script call meets: no file at script_path, subprocess.run
\* raising, or the exit status of the script
ScriptOutcomes == {"not_found", "raised", "exit0", "exit1", "exit2"}

\* update_all.py 15-47: True when the script ran and its returncode is 0
run_script(outcome) == outcome = "exit0"

\* update_all.py 72-91: the arguments are parsed; without the JSON file main
\* returns 1, else the counters are set to 0 and common_args prepared
UpdateAllStart(json_exists, no_backup, force, update_stats, readme_only, html_only) ==
    /\ ua.pc = "idle"
    /\ ua' = IF ~json_exists
             THEN [ua EXCEPT !.pc = "exit", !.ret = "1",
                             !.readme_only = readme_only, !.html_only = html_only]
             ELSE [ua EXCEPT !.pc = "readme", !.json_exists = TRUE,
                             !.readme_only = readme_only, !.html_only = html_only,
                             !.common_args =
                                 {"--json-path"}
                                 \cup (IF no_backup THEN {"--no-backup"} ELSE {})
                                 \cup (IF force THEN {"--force"} ELSE {})
                                 \cup (IF update_stats THEN {"update_stats"} ELSE {}),
                             !.counted = TRUE,
                             !.success_count = 0, !.total_updates = 0]
    /\ UNCHANGED <<pipeVars, syncVars, cliVars, pf, cc>>

\* (mutant) a failed README update ends the run
UpdateReadmeStopsOnFailure(outcome) ==
    /\ ua.pc = "readme"
    /\ ua' = IF ua.html_only THEN [ua EXCEPT !.pc = "html"]
             ELSE [ua EXCEPT !.pc = IF run_script(outcome) THEN "html" ELSE "summary",
                             !.total_updates = @ + 1,
                             !.success_count = IF run_script(outcome) THEN @ + 1 ELSE @,
                             !.attempts = Append(@,
                                 [script |-> "update_readme.py",
                                  args |-> (ua.common_args \ {"update_stats"})
                                           \cup {"--readme-path"},
                                  outcome |-> outcome])]
    /\ UNCHANGED <<pipeVars, syncVars, cliVars, pf, cc>>

\* update_all.py 93-106: unless --html-only, update_readme.py is run with
\* common_args and --readme-path
UpdateReadme(outcome) ==
    /\ ua.pc = "readme"
    /\ ua' = IF ua.html_only THEN [ua EXCEPT !.pc = "html"]
             ELSE [ua EXCEPT !.pc = "html",
                             !.total_updates = @ + 1,
                             !.success_count = IF run_script(outcome) THEN @ + 1 ELSE @,
                             !.attempts = Append(@,
                                 [script |-> "update_readme.py",
                                  args |-> (ua.common_args \ {"update_stats"})
                                           \cup {"--readme-path"},
                                  outcome |-> outcome])]
    /\ UNCHANGED <<pipeVars, syncVars, cliVars, pf, cc>>

\* (mutant) every update that was attempted counts as a success
UpdateHtmlCountsAll(outcome) ==
    /\ ua.pc = "html"
    /\ ua' = IF ua.readme_only THEN [ua EXCEPT !.pc = "summary"]
             ELSE [ua EXCEPT !.pc = "summary",
                             !.total_updates = @ + 1,
                             !.success_count = @ + 1,
                             !.attempts = Append(@,
                                 [script |-> "update_html.py",
                                  args |-> (ua.common_args \ {"update_stats"})
                                           \cup {"--html-path"}
                                           \cup (IF "update_stats" \in ua.common_args
                                                 THEN {"--update-stats"} ELSE {}),
                                  outcome |-> outcome])]
    /\ UNCHANGED <<pipeVars, syncVars, cliVars, pf, cc>>

\* update_all.py 108-123: unless --readme-only, update_html.py is run with
\* common_args, --html-path and, if asked for, --update-stats
UpdateHtml(outcome) ==
    /\ ua.pc = "html"
    /\ ua' = IF ua.readme_only THEN [ua EXCEPT !.pc = "summary"]
             ELSE [ua EXCEPT !.pc = "summary",
                             !.total_updates = @ + 1,
                             !.success_count = IF run_script(outcome) THEN @ + 1 ELSE @,
                             !.attempts = Append(@,
                                 [script |-> "update_html.py",
                                  args |-> (ua.common_args \ {"update_stats"})
                                           \cup {"--html-path"}
                                           \cup (IF "update_stats" \in ua.common_args
                                                 THEN {"--update-stats"} ELSE {}),
                                  outcome |-> outcome])]
    /\ UNCHANGED <<pipeVars, syncVars, cliVars, pf, cc>>

\* update_all.py 125-138
UpdateAllSummary ==
    /\ ua.pc = "summary"
    /\ ua' = [ua EXCEPT !.pc = "exit",
                        !.ret = IF ua.success_count = ua.total_updates
                                THEN "0" ELSE "1"]
    /\ UNCHANGED <<pipeVars, syncVars, cliVars, pf, cc>>

\* =================================================================
\* add_record_interactive.py
\* =================================================================
\* add_record_interactive.py 5
DATA_TYPES ==
    <<"ai-agents", "foundation-models", "ai-tools", "databases", "benchmarks",
      "reviews">>

\* add_record_interactive.py 7
FIELDS ==
    <<"year", "title", "team", "team website", "affiliation", "domain", "venue",
      "paperUrl", "codeUrl", "githubStars">>

NoRecord == <<>>

\* json_file: what load_json finds at json_path; saved: the list save_json
\* has written for data_type
PfIdle == [pc |-> "idle", prompts |-> 0, data_type |-> "none", line |-> <<>>,
           record |-> NoRecord, json_file |-> "none", saved |-> <<>>]

\* what is typed at "Enter number or name: ", stripped; Digits gives
\* int(choice) of the inputs that are digits
Choices == {"0", "1", "6", "7", "reviews", "ai-agents", "AI Agents", ""}

Digits == [c \in {"0", "1", "6", "7"} |->
              CASE c = "0" -> 0 [] c = "1" -> 1 [] c = "6" -> 6 [] c = "7" -> 7]

\* add_record_interactive.py 15-24: the data type of a choice, "none" when
\* the choice is invalid
data_type_of(choice) ==
    IF choice \in DOMAIN Digits
    THEN LET idx == Digits[choice] - 1
         IN  IF 0 <= idx /\ idx < Len(DATA_TYPES) THEN DATA_TYPES[idx + 1] ELSE "none"
    ELSE IF \E i \in 1..Len(DATA_TYPES) : DATA_TYPES[i] = choice THEN choice
    ELSE "none"

\* add_record_interactive.py 55: code_url.split("github.com/")[1]; Absent
\* when the list has one element (IndexError)
AfterGithub(code_url) ==
    LET pat == <<"github.com", "/">>
        at == { p \in 1..Len(code_url) : HasAt(code_url, p, pat) }
    IN  IF at = {} THEN Absent
        ELSE LET rest == SubSeq(code_url, SetMin(at) + 2, Len(code_url))
                 more == { p \in 1..Len(rest) : HasAt(rest, p, pat) }
             IN  IF more = {} THEN rest ELSE SubSeq(rest, 1, SetMin(more) - 1)

\* text.strip("/")
RECURSIVE StripSlashes(_)
StripSlashes(text) ==
    IF Len(text) > 0 /\ text[1] = "/" THEN StripSlashes(Tail(text))
    ELSE IF Len(text) > 0 /\ text[Len(text)] = "/"
    THEN StripSlashes(SubSeq(text, 1, Len(text) - 1))
    ELSE text

\* add_record_interactive.py 49-61: githubStars is the badge of owner/repo
\* when codeUrl holds "github.com"
WithBadge(parts) ==
    LET code_url == parts[9]
    IN  IF (\E i \in 1..Len(code_url) : code_url[i] = "github.com")
           /\ AfterGithub(code_url) # Absent
        THEN LET path == Split(StripSlashes(AfterGithub(code_url)), "/")
                 owner_repo == Join(SubSeq(path, 1, IF Len(path) < 2 THEN Len(path) ELSE 2),
                                    <<"/">>)
             IN  [parts EXCEPT ![10] =
                     <<"https://img.shields.io/github/stars/">> \o owner_repo]
        ELSE parts

\* add_record_interactive.py 31-40: the parts of the line, filled up with
\* empty strings, and '""' read as the empty string
record_parts(line) ==
    LET split == Split(Strip(line), ";")
        stripped == [i \in 1..Len(split) |-> Strip(split[i])]
        filled == IF Len(stripped) < Len(FIELDS)
                  THEN stripped \o [i \in 1..(Len(FIELDS) - Len(stripped)) |-> <<>>]
                  ELSE stripped
    IN  [i \in 1..Len(filled) |-> IF filled[i] = <<"\"", "\"">> THEN <<>> ELSE filled[i]]

\* (mutant) a line without a title is taken
record_error_year_only(line) ==
    IF Len(Split(Strip(line), ";")) > Len(FIELDS) THEN "Too many fields"
    ELSE IF record_parts(line)[1] = <<>> THEN "Year is mandatory"
    ELSE "ok"

\* add_record_interactive.py 34-47: why a line is asked for again
record_error(line) ==
    IF Len(Split(Strip(line), ";")) > Len(FIELDS) THEN "Too many fields"
    ELSE IF record_parts(line)[1] = <<>> THEN "Year is mandatory"
    ELSE IF record_parts(line)[2] = <<>> THEN "Title is mandatory"
    ELSE "ok"

\* add_record_interactive.py 63: dict(zip(FIELDS, parts))
record_of(line) ==
    LET parts == WithBadge(record_parts(line))
        n == IF Len(parts) < Len(FIELDS) THEN Len(parts) ELSE Len(FIELDS)
    IN  [f \in { FIELDS[i] : i \in 1..n } |->
            parts[CHOOSE i \in 1..n : FIELDS[i] = f]]

\* the texts of one field of a typed line
YearParts ==
    { <<>>, <<" ">>, <<"\"", "\"">>, <<" ", "\"", "\"", " ">>, <<"2024">>,
      <<" ", "0", " ">> }

TitleParts == { <<>>, <<"\"", "\"">>, <<" ", "T", " ">> }

CodeParts ==
    { <<>>,
      <<"https://", "github.com", "/", "o", "/", "r", "/", "tree">>,
      <<"github.com">>,
      <<"https://", "x">> }

\* a line of n fields
RecordLine(n, year, title, code) ==
    Join([i \in 1..n |-> CASE i = 1 -> year
                           [] i = 2 -> title
                           [] i = 9 -> code
                           [] OTHER -> IF i % 2 = 0 THEN <<"x">> ELSE <<>>],
         <<";">>)

\* the numbers of fields typed: too few, all of them, and too many
PartCounts == {1, 2, Len(FIELDS) - 1, Len(FIELDS), MaxParts}

RecordLines ==
    { RecordLine(n, year, title, code) :
        n \in PartCounts, year \in YearParts, title \in TitleParts, code \in CodeParts }

\* what load_json finds: no file, a dictionary without the data type, or one
\* with an empty list for it
JsonFiles == {"missing", "without_key", "with_key"}

\* add_record_interactive.py 78-83: main starts prompt_data_type
AddRecordStart(json_file) ==
    /\ pf.pc = "idle"
    /\ pf' = [PfIdle EXCEPT !.pc = "data_type", !.json_file = json_file]
    /\ UNCHANGED <<pipeVars, syncVars, cliVars, ua, cc>>

\* add_record_interactive.py 14-24: one input of prompt_data_type
PromptDataType(choice) ==
    /\ pf.pc = "data_type"
    /\ pf.prompts < MaxRecordPrompts
    /\ pf' = IF data_type_of(choice) = "none"
             THEN [pf EXCEPT !.prompts = @ + 1]
             ELSE [pf EXCEPT !.pc = "record", !.prompts = 0,
                             !.data_type = data_type_of(choice)]
    /\ UNCHANGED <<pipeVars, syncVars, cliVars, ua, cc>>

\* add_record_interactive.py 30-63: one input of prompt_record_fields
PromptRecordFields(line) ==
    /\ pf.pc = "record"
    /\ pf.prompts < MaxRecordPrompts
    /\ pf' = IF record_error(line) # "ok"
             THEN [pf EXCEPT !.prompts = @ + 1, !.line = line]
             ELSE [pf EXCEPT !.pc = "load", !.line = line, !.record = record_of(line)]
    /\ UNCHANGED <<pipeVars, syncVars, cliVars, ua, cc>>

\* add_record_interactive.py 15, 31: input() raises at the end of the input
PromptRecordEndOfInput ==
    /\ pf.pc \in {"data_type", "record"}
    /\ pf' = [pf EXCEPT !.pc = "raised"]
    /\ UNCHANGED <<pipeVars, syncVars, cliVars, ua, cc>>

\* add_record_interactive.py 86-92: the record is appended to the list of
\* its data type and the file written
AddRecordSave ==
    /\ pf.pc = "load"
    /\ pf' = [pf EXCEPT !.pc = "saved", !.saved = <<pf.record>>]
    /\ UNCHANGED <<pipeVars, syncVars, cliVars, ua, cc>>

\* =================================================================
\* tool.py: search_papers calls of two processes on one database file
\* =================================================================
\* the daily job (daily.py) and a command line run
Procs == {"daily", "cli"}

\* txn: the rows added to the process's session and not yet committed;
\* flushed: the session has written them into its open transaction and
\* holds the write lock of the file
CsIdle == [pc |-> "idle", calls |-> 0, papers |-> <<>>, idx |-> 1, txn |-> <<>>,
           paper_ls |-> <<>>, flushed |-> FALSE]

\* both processes run with one DATABASE_URL
SharedFile == get_database_session(None)

\* no other process holds the write lock
LockFree(p) == \A q \in Procs \ {p} : ~cc[q].flushed

\* the session of p has rows to write before its next query or its commit
MustFlush(p) == cc[p].txn # <<>> /\ ~cc[p].flushed

\* tool.py 92-112 in process p
ProcSearchCall(p, resp) ==
    /\ cc[p].pc \in {"idle", "returned"}
    /\ cc[p].calls < MaxProcCalls
    /\ LET papers == SelectSeq(resp, LAMBDA x : x.authorId # None)
       IN  cc' = [cc EXCEPT ![p] =
                    IF Len(papers) = 0
                    THEN [CsIdle EXCEPT !.pc = "returned", !.calls = cc[p].calls + 1]
                    ELSE [CsIdle EXCEPT !.pc = "loop", !.papers = papers,
                                        !.calls = cc[p].calls + 1]]
    /\ UNCHANGED <<pipeVars, syncVars, cliVars, ua, pf>>

\* tool.py 113-155 in process p: one iteration of the loop. The query of
\* line 124 first flushes the session's pending rows, which takes the write
\* lock of the file; the rows of the other session are seen only once they
\* are committed.
ProcSearchIter(p) ==
    /\ cc[p].pc = "loop"
    /\ cc[p].idx <= Len(cc[p].papers)
    /\ LET paper == cc[p].papers[cc[p].idx]
           existing == Existing(QueryVisible(db[SharedFile], cc[p].txn), paper.doi)
       IN  IF paper.doi = None
           THEN cc' = [cc EXCEPT ![p].idx = @ + 1]
           ELSE /\ MustFlush(p) => LockFree(p)
                /\ cc' = [cc EXCEPT
                            ![p].idx = @ + 1,
                            ![p].flushed = @ \/ cc[p].txn # <<>>,
                            ![p].txn = IF existing THEN @
                                       ELSE Append(@, Row(paper.doi, paper.title, None)),
                            ![p].paper_ls = Append(@, paper.doi)]
    /\ UNCHANGED <<pipeVars, syncVars, cliVars, ua, pf>>

\* tool.py 124, 156: the file stays locked by another process until the
\* timeout; the flush raises OperationalError and the call ends
ProcSearchLocked(p) ==
    /\ cc[p].pc = "loop"
    /\ MustFlush(p)
    /\ ~LockFree(p)
    /\ IF cc[p].idx > Len(cc[p].papers) THEN TRUE
       ELSE cc[p].papers[cc[p].idx].doi # None
    /\ cc' = [cc EXCEPT ![p].pc = "raised", ![p].txn = <<>>]
    /\ UNCHANGED <<pipeVars, syncVars, cliVars, ua, pf>>

\* tool.py 156-157 in process p: session.commit() and the return
ProcSearchCommit(p) ==
    /\ cc[p].pc = "loop"
    /\ cc[p].idx > Len(cc[p].papers)
    /\ MustFlush(p) => LockFree(p)
    /\ db' = [db EXCEPT ![SharedFile] = CommitRows(@, cc[p].txn)]
    /\ cc' = [cc EXCEPT ![p].pc = "returned", ![p].txn = <<>>, ![p].flushed = FALSE]
    /\ UNCHANGED <<pc, db_path, calls, rets, annotator_input, annotator_res,
                   paper_list, query_paper_res, session, session_filter, runs,
                   sp, toolCalls>>
    /\ UNCHANGED <<syncVars, cliVars, ua, pf>>

\* =================================================================
\* main.py: select_model_and_get_keys
\* =================================================================
\* main.py 64-70
model_map ==
    [c \in {"1", "2", "3", "4", "5"} |->
        CASE c = "1" -> "openai"
          [] c = "2" -> "deepseek"
          [] c = "3" -> "gemini"
          [] c = "4" -> "mistral"
          [] c = "5" -> "openaillm"]

\* what the user may type at a prompt
Answers == {"", " ", "0", "1", "2", "3", "4", "5", "6", "openai", "key", "http://u"}

SelIdle == [pc |-> "idle", provider |-> None, api_key |-> None, base_url |-> None,
            semanticscholar_api_key |-> None, answer |-> None, prompts |-> 0]

SelPrompts == {"choice", "api_key", "base_url", "semanticscholar_api_key"}

\* (mutant) every answer counts as given
TruthyOrEmpty(text) == text \in Answers

\* main.py 81, 89, 95: 'if api_key:' and the like
TruthyString(text) == text # ""

\* main.py 55-70: the menu is printed
SelectStart ==
    /\ sel.pc = "idle"
    /\ sel' = [sel EXCEPT !.pc = "choice"]
    /\ UNCHANGED <<toolVars, pipeVars, syncVars, cli, spn, stdout>>

\* main.py 72-77
PromptChoice(choice) ==
    /\ sel.pc = "choice"
    /\ sel.prompts < MaxPrompts
    /\ sel' = IF choice \in DOMAIN model_map
              THEN [sel EXCEPT !.pc = "api_key", !.provider = model_map[choice],
                               !.answer = choice, !.prompts = @ + 1]
              ELSE [sel EXCEPT !.answer = choice, !.prompts = @ + 1]
    /\ UNCHANGED <<toolVars, pipeVars, syncVars, cli, spn, stdout>>

\* main.py 79-86
PromptApiKey(api_key) ==
    /\ sel.pc = "api_key"
    /\ sel.prompts < MaxPrompts
    /\ sel' = IF TruthyString(api_key)
              THEN [sel EXCEPT !.pc = IF sel.provider = "openaillm" THEN "base_url"
                                      ELSE "semanticscholar_api_key",
                               !.api_key = api_key, !.base_url = None,
                               !.answer = api_key, !.prompts = @ + 1]
              ELSE [sel EXCEPT !.api_key = api_key, !.answer = api_key,
                               !.prompts = @ + 1]
    /\ UNCHANGED <<toolVars, pipeVars, syncVars, cli, spn, stdout>>

\* main.py 87-91
PromptBaseUrl(base_url) ==
    /\ sel.pc = "base_url"
    /\ sel.prompts < MaxPrompts
    /\ sel' = [sel EXCEPT !.pc = IF TruthyString(base_url)
                                 THEN "semanticscholar_api_key" ELSE @,
                          !.base_url = base_url, !.answer = base_url,
                          !.prompts = @ + 1]
    /\ UNCHANGED <<toolVars, pipeVars, syncVars, cli, spn, stdout>>

\* main.py 93-99
PromptSemanticScholarKey(semanticscholar_api_key) ==
    /\ sel.pc = "semanticscholar_api_key"
    /\ sel.prompts < MaxPrompts
    /\ sel' = [sel EXCEPT !.pc = IF TruthyString(semanticscholar_api_key)
                                 THEN "returned" ELSE @,
                          !.semanticscholar_api_key = semanticscholar_api_key,
                          !.answer = semanticscholar_api_key,
                          !.prompts = @ + 1]
    /\ UNCHANGED <<toolVars, pipeVars, syncVars, cli, spn, stdout>>

\* main.py 73, 80, 88, 94: input() raises EOFError when standard input ends
PromptEndOfInput ==
    /\ sel.pc \in SelPrompts
    /\ sel' = [sel EXCEPT !.pc = "raised"]
    /\ UNCHANGED <<toolVars, pipeVars, syncVars, cli, spn, stdout>>

\* =================================================================
\* main.py: Spinner and main
\* =================================================================
\* workflow.py 17, 20, 26, 29: the messages run hands to status_callback
StatusMessages ==
    <<"Searching for papers...", "Annotating papers...",
      "Querying database for details...", "Generating report...">>

\* main.py 40
SpinnerChars == <<"|", "/", "-", "\\">>

\* main.py 28-31; tpc is the position of the thread that runs _spin
SpnIdle == [message |-> "Processing...", stop_running |-> FALSE,
            spinner_thread |-> None, tpc |-> "none", char |-> 1]

CliIdle == [pc |-> "idle", output_filename |-> None, status |-> 0,
            report |-> None, file |-> None]

\* sys.stdout.write / print: the text is appended, the oldest write dropped
Write(out, by, text) ==
    LET all == Append(out, [by |-> by, text |-> text])
    IN  IF Len(all) > MaxOut THEN Tail(all) ELSE all

\* main.py 159-183: the prompts of main up to the query
CliSetup(output_filename) ==
    /\ cli.pc = "idle"
    /\ cli' = [cli EXCEPT !.pc = "start", !.output_filename = output_filename]
    /\ spn' = SpnIdle
    /\ UNCHANGED <<toolVars, pipeVars, syncVars, sel, stdout>>

\* main.py 185, 33-36: spinner.start()
SpinnerStart ==
    /\ cli.pc = "start"
    /\ spn' = [spn EXCEPT !.stop_running = FALSE, !.spinner_thread = "thread",
                          !.tpc = "while"]
    /\ cli' = [cli EXCEPT !.pc = "run"]
    /\ UNCHANGED <<toolVars, pipeVars, syncVars, sel, stdout>>

\* main.py 39: the thread tests stop_running
SpinWhile ==
    /\ spn.tpc = "while"
    /\ spn' = [spn EXCEPT !.tpc = IF spn.stop_running THEN "clear" ELSE "for",
                          !.char = 1]
    /\ UNCHANGED <<toolVars, pipeVars, syncVars, sel, cli, stdout>>

\* main.py 40-43: one frame is written, the thread sleeps
SpinFrame ==
    /\ spn.tpc = "for"
    /\ stdout' = Write(stdout, "spinner", <<spn.message, SpinnerChars[spn.char]>>)
    /\ spn' = IF spn.char < Len(SpinnerChars) THEN [spn EXCEPT !.char = @ + 1]
              ELSE [spn EXCEPT !.tpc = "while"]
    /\ UNCHANGED <<toolVars, pipeVars, syncVars, sel, cli>>

\* main.py 44-45: the line is cleared and the thread ends
SpinClear ==
    /\ spn.tpc = "clear"
    /\ stdout' = Write(stdout, "spinner", <<"clear">>)
    /\ spn' = [spn EXCEPT !.tpc = "terminated"]
    /\ UNCHANGED <<toolVars, pipeVars, syncVars, sel, cli>>

\* main.py 186, workflow.py 17-29, main.py 52-53: run reports its next step
\* through status_callback = spinner.update_message
AgentStatus ==
    /\ cli.pc = "run"
    /\ cli.status < Len(StatusMessages)
    /\ cli' = [cli EXCEPT !.status = @ + 1]
    /\ spn' = [spn EXCEPT !.message = StatusMessages[cli.status + 1]]
    /\ UNCHANGED <<toolVars, pipeVars, syncVars, sel, stdout>>

\* main.py 186: agent.run returns the report
AgentReturns ==
    /\ cli.pc = "run"
    /\ cli.status = Len(StatusMessages)
    /\ cli' = [cli EXCEPT !.pc = "stop", !.report = "report"]
    /\ UNCHANGED <<toolVars, pipeVars, syncVars, sel, spn, stdout>>

\* main.py 186: agent.run raises (C12); main has no handler and ends
AgentRaises ==
    /\ cli.pc = "run"
    /\ cli.status >= 1
    /\ cli' = [cli EXCEPT !.pc = "raised"]
    /\ UNCHANGED <<toolVars, pipeVars, syncVars, sel, spn, stdout>>

\* main.py 187, 47-48: spinner.stop() sets the flag
SpinnerStop ==
    /\ cli.pc = "stop"
    /\ spn' = [spn EXCEPT !.stop_running = TRUE]
    /\ cli' = [cli EXCEPT !.pc = "join"]
    /\ UNCHANGED <<toolVars, pipeVars, syncVars, sel, stdout>>

\* (mutant) stop() returns without waiting for the thread
SpinnerJoinNoWait ==
    /\ cli.pc = "join"
    /\ cli' = [cli EXCEPT !.pc = "output"]
    /\ UNCHANGED <<toolVars, pipeVars, syncVars, sel, spn, stdout>>

\* main.py 49-50: join() returns when the thread has ended; without a thread
\* stop() returns at once
SpinnerJoin ==
    /\ cli.pc = "join"
    /\ spn.spinner_thread = None \/ spn.tpc = "terminated"
    /\ cli' = [cli EXCEPT !.pc = "output"]
    /\ UNCHANGED <<toolVars, pipeVars, syncVars, sel, spn, stdout>>

\* main.py 189-195: the report is saved and the file name printed, or the
\* report is printed
Output ==
    /\ cli.pc = "output"
    /\ IF cli.output_filename # None
       THEN /\ cli' = [cli EXCEPT !.pc = "done", !.file = cli.report]
            /\ stdout' = Write(stdout, "main", <<"Report saved to", cli.output_filename>>)
       ELSE /\ cli' = [cli EXCEPT !.pc = "done"]
            /\ stdout' = Write(stdout, "main", <<"--- Report ---", cli.report>>)
    /\ UNCHANGED <<toolVars, pipeVars, syncVars, sel, spn>>

\* =================================================================
\* Specifications
\* =================================================================

InitCliIdle == sel = SelIdle /\ cli = CliIdle /\ spn = SpnIdle /\ stdout = <<>>

InitToolIdle == ua = UaIdle /\ pf = PfIdle /\ cc = [p \in Procs |-> CsIdle]

InitSyncIdle == lp = LpIdle /\ mn = MnIdle /\ rd = RdIdle /\ ht = HtIdle /\ cp = CpIdle

\* ------------------------------------------------------- the pipeline
Init == InitPipe /\ InitSyncIdle /\ InitCliIdle /\ InitToolIdle

Next ==
    \/ \E path \in DbPaths : RunStart(path)
    \/ \E resp \in SeqsUpTo(ApiPapers, MaxPapers) : SearchPapersCall(resp)
    \/ SearchPapersIter
    \/ SearchPapersCommit
    \/ SearcherReturns
    \/ SearcherRaises
    \/ \E content \in AnnotatorContents : AnnotatorReturns(content)
    \/ AnnotatorRaises
    \/ AnnotateRetry
    \/ AnnotateExit
    \/ QueryPaperReturns
    \/ QueryPaperRaises
    \/ ReporterReturns
    \/ ReporterRaises

Spec == Init /\ [][Next]_vars

\* ------------------------------------------------------- load_project_data
InitLoad ==
    /\ InitPipe
    /\ InitCliIdle
    /\ InitToolIdle
    /\ mn = MnIdle /\ rd = RdIdle /\ ht = HtIdle /\ cp = CpIdle
    /\ \/ \E f \in {"missing", "malformed"} :
              lp = [LpIdle EXCEPT !.pc = "start", !.file = f]
       \/ \E d \in JsonData :
              lp = [LpIdle EXCEPT !.pc = "start", !.file = "json", !.data = d]

NextLoad == LoadOpen \/ LoadCategory \/ LoadProject \/ LoadReturn

SpecLoad == InitLoad /\ [][NextLoad]_vars

\* ------------------------------------------------------- the main functions
NextMain ==
    \/ \E script \in {"readme", "html"}, no_backup, force, files_ok \in BOOLEAN :
            MainStart(script, no_backup, force, files_ok)
    \/ \E loaded \in BOOLEAN : MainLoad(loaded)
    \/ \E changes_count \in {0, 1} : MainCompare(changes_count)
    \/ MainBackup
    \/ \E outcome \in FileOutcomes : MainUpdate(outcome)
    \/ \E outcome \in FileOutcomes : MainStats(outcome)

SpecMain == Init /\ [][NextMain]_vars

\* ------------------------------------------------------- update_all.main
NextUpdateAll ==
    \/ \E json_exists, no_backup, force, update_stats, readme_only, html_only \in BOOLEAN :
            UpdateAllStart(json_exists, no_backup, force, update_stats,
                           readme_only, html_only)
    \/ \E outcome \in ScriptOutcomes : UpdateReadme(outcome)
    \/ \E outcome \in ScriptOutcomes : UpdateHtml(outcome)
    \/ UpdateAllSummary

SpecUpdateAll == Init /\ [][NextUpdateAll]_vars

\* ------------------------------------------- add_record_interactive.main
NextAddRecord ==
    \/ \E json_file \in JsonFiles : AddRecordStart(json_file)
    \/ \E choice \in Choices : PromptDataType(choice)
    \/ \E line \in RecordLines : PromptRecordFields(line)
    \/ PromptRecordEndOfInput
    \/ AddRecordSave

SpecAddRecord == Init /\ [][NextAddRecord]_vars

\* ------------------------------- search_papers in two processes at once
NextConcurrent ==
    \/ \E p \in Procs, resp \in SeqsUpTo(ApiPapers, MaxPapers) : ProcSearchCall(p, resp)
    \/ \E p \in Procs : ProcSearchIter(p)
    \/ \E p \in Procs : ProcSearchLocked(p)
    \/ \E p \in Procs : ProcSearchCommit(p)

SpecConcurrent == Init /\ [][NextConcurrent]_vars

\* =================================================================
\* Properties of the pipeline
\* =================================================================
IsPrefix(a, b) == Len(a) <= Len(b) /\ \A i \in 1..Len(a) : a[i] = b[i]

FullResultsFiles == { f \in Files : f[2] = FULL_DB }

\* C1: in every run the steps occur in the order searcher -> annotator (one
\* or more calls) -> query_paper -> reporter: once run has started the
\* searcher has been called exactly once, query_paper and the reporter at
\* most once, the annotator only after the searcher returned, query_paper
\* only after an annotator call returned a structured response, and the
\* reporter only after query_paper returned.
C1_StepOrder ==
    /\ pc # "idle" => calls["searcher"] = 1
    /\ rets["searcher"] <= 1
    /\ calls["query_paper"] <= 1
    /\ calls["reporter"] <= 1
    /\ calls["annotator"] >= 1 => rets["searcher"] = 1
    /\ calls["query_paper"] >= 1 =>
          rets["annotator"] >= 1 /\ annotator_res.kind = "obj"
    /\ calls["reporter"] >= 1 => rets["query_paper"] = 1
    /\ rets["reporter"] >= 1 => pc = "done"

\* a run has completed after the annotator was called more than once
C1_Witness ==
    /\ pc = "done"
    /\ rets["reporter"] = 1
    /\ calls["annotator"] >= 2

\* C2: the annotate loop calls the annotator again whenever the response is
\* a plain string, however many calls have been made, and goes on to
\* query_paper exactly when the response is structured; run enters
\* query_paper only from the loop, with a structured response.  An annotator
\* call leads back to the loop test unless it raises.
C2_AnnotateLoop ==
    [][ /\ (pc = "while" /\ annotator_res.kind = "str") => pc' = "annotator"
        /\ (pc = "while" /\ annotator_res.kind = "obj") => pc' = "query_paper"
        /\ (pc' = "query_paper" /\ pc # "query_paper") =>
              (pc = "while" /\ annotator_res.kind = "obj")
        /\ (pc = "annotator") => pc' \in {"while", "raised"} ]_vars

\* the annotator has answered with a string after as many calls as the
\* counter can tell apart
C2_Witness ==
    /\ pc = "while"
    /\ annotator_res.kind = "str"
    /\ calls["annotator"] = MaxCount
    /\ rets["annotator"] = MaxCount

\* C3: the full-results table holds at most one row per DOI.
C3_UniqueDoi ==
    \A f \in FullResultsFiles : \A d \in DOIs : CountDoi(db[f], d) <= 1

\* search_papers has returned after a response that held one DOI twice, and
\* the table holds that DOI
C3_Witness ==
    /\ sp.pc = "returned"
    /\ \E i, j \in 1..Len(sp.papers) :
          /\ i < j
          /\ sp.papers[i].doi # None
          /\ sp.papers[i].doi = sp.papers[j].doi
          /\ CountDoi(db[sp.file], sp.papers[i].doi) = 1

\* C4 (as claimed): when query_paper has returned, every DOI of paper_list
\* has a committed row in the filtered-results table, and that table holds
\* at most one row per DOI.
C4_FilterPersisted ==
    rets["query_paper"] >= 1 =>
        LET filtered == db[filter_db_full_path(db_path)]
        IN  /\ \A i \in 1..Len(paper_list) : Existing(filtered, paper_list[i].doi)
            /\ \A d \in DOIs : CountDoi(filtered, d) <= 1

\* C5 (as claimed): the session query_paper uses for the filtered results
\* is bound to SemanticScholar_papers_filter.db, not to the file of the
\* full results.
C5_SeparateFiles ==
    session_filter.file # NoFile =>
        /\ session_filter.file = filter_db_full_path(db_path)
        /\ session_filter.file # session

\* C6: no step changes or removes a stored row: in every table the rows
\* before a step are, unchanged and in place, the first rows after it.
C6_RowsOnlyAdded ==
    [][ \A f \in Files : IsPrefix(db[f], db'[f]) ]_vars

\* search_papers has returned after it was given a paper whose DOI was
\* already stored with another title, and the stored row has kept its title
C6_Witness ==
    /\ sp.pc = "returned"
    /\ Len(sp.txn) < Len(sp.paper_ls)
    /\ \E i \in 1..Len(sp.papers) : \E k \in 1..Len(db[sp.file]) :
          /\ db[sp.file][k].doi = sp.papers[i].doi
          /\ db[sp.file][k].title # sp.papers[i].title

\* ------------------------------------------------------- update_readme_file
InitReadme ==
    /\ InitPipe
    /\ InitCliIdle
    /\ InitToolIdle
    /\ lp = LpIdle /\ mn = MnIdle /\ ht = HtIdle /\ cp = CpIdle
    /\ \E lines \in SeqsUpTo(ReadmeLines, MaxLines), source_data \in ReadmeSources :
          rd = [RdIdle EXCEPT !.pc = "file",
                              !.content = Join(lines, <<NL>>),
                              !.orig = Join(lines, <<NL>>),
                              !.new_tables = NewTables(source_data),
                              !.source = source_data]

NextReadme == \E io \in IoOutcomes : UpdateReadmeFile(io)

SpecReadme == InitReadme /\ [][NextReadme]_vars

\* --------------------------------------------------------- update_html_file
InitHtml ==
    /\ InitPipe
    /\ InitCliIdle
    /\ InitToolIdle
    /\ lp = LpIdle /\ mn = MnIdle /\ rd = RdIdle /\ cp = CpIdle
    /\ \E chunks \in SeqsUpTo(HtmlChunks, MaxChunks), project_data \in HtmlData :
          ht = [HtIdle EXCEPT !.pc = "file",
                              !.content = Join(chunks, <<>>),
                              !.orig = Join(chunks, <<>>),
                              !.new_js_data = generate_js_object(project_data)]

NextHtml == \E io \in IoOutcomes : UpdateHtmlFile(io)

SpecHtml == InitHtml /\ [][NextHtml]_vars

\* ------------------------------------------------ select_model_and_get_keys
NextSelect ==
    \/ SelectStart
    \/ \E choice \in Answers : PromptChoice(choice)
    \/ \E api_key \in Answers : PromptApiKey(api_key)
    \/ \E base_url \in Answers : PromptBaseUrl(base_url)
    \/ \E key \in Answers : PromptSemanticScholarKey(key)
    \/ PromptEndOfInput

SpecSelect == Init /\ [][NextSelect]_vars

\* C12: run catches no exception.  A step is invoked only when the step
\* before it has returned or from the annotate loop, never because a step
\* raised; a raise leaves run at once, with nothing invoked and nothing
\* returned; after it nothing of that run goes on (only a new call of run
\* follows), and a run that raised has returned no report.
C12_NoExceptionCaught ==
    /\ [][ /\ (calls' # calls /\ runs' = runs) => (rets' # rets \/ pc = "while")
           /\ (pc' = "raised" /\ pc # "raised") => (calls' = calls /\ rets' = rets)
           /\ pc = "raised" =>
                 \/ pc' = "raised" /\ calls' = calls /\ rets' = rets
                 \/ runs' = runs + 1 ]_vars
    /\ [](pc = "raised" => rets["reporter"] = 0)

\* the reporter raised: run has left with query_paper returned and no report
C12_Witness ==
    /\ pc = "raised"
    /\ calls["reporter"] = 1
    /\ rets["query_paper"] = 1

\* ------------------------------------------------------- main and Spinner
NextCli ==
    \/ \E output_filename \in {None, "research_report.md"} : CliSetup(output_filename)
    \/ SpinnerStart
    \/ SpinWhile
    \/ SpinFrame
    \/ SpinClear
    \/ AgentStatus
    \/ AgentReturns
    \/ AgentRaises
    \/ SpinnerStop
    \/ SpinnerJoin
    \/ Output

SpecCli == Init /\ [][NextCli]_vars

\* the steps of the main thread, agent.run included, and those of the
\* thread that runs _spin
MainThread ==
    \/ \E output_filename \in {None, "research_report.md"} : CliSetup(output_filename)
    \/ SpinnerStart
    \/ AgentStatus
    \/ AgentReturns
    \/ AgentRaises
    \/ SpinnerStop
    \/ SpinnerJoin
    \/ Output

SpinThread == SpinWhile \/ SpinFrame \/ SpinClear

\* both threads are scheduled again and again, and agent.run comes to an end
SpecCliFair == SpecCli /\ WF_vars(MainThread) /\ WF_vars(SpinThread)

\* ----------------------------------------------------- compare_project_data
InitCompare ==
    /\ InitPipe
    /\ InitCliIdle
    /\ InitToolIdle
    /\ lp = LpIdle /\ mn = MnIdle /\ rd = RdIdle /\ ht = HtIdle
    /\ \E source, target \in CompareDicts :
          cp = [CpIdle EXCEPT !.pc = "called", !.source = source, !.target = target]

NextCompare == CompareProjectData

SpecCompare == InitCompare /\ [][NextCompare]_vars

\* ------------------------------------------- update_readme.main on a README
\* the JSON files of these runs hold no newline in a URL
SyncSources == { source_data \in ReadmeSources :
                    \A i \in 1..Len(source_data) :
                        \A k \in 1..Len(source_data[i].projects) :
                            source_data[i].projects[k] # ProjectUrlNewline }

InitSyncReadme ==
    /\ InitPipe
    /\ InitCliIdle
    /\ InitToolIdle
    /\ lp = LpIdle /\ mn = MnIdle /\ ht = HtIdle /\ cp = CpIdle
    /\ \E lines \in SeqsUpTo(ReadmeLines, MaxLines), source_data \in SyncSources :
          rd = [RdIdle EXCEPT !.pc = "file",
                              !.content = Join(lines, <<NL>>),
                              !.orig = Join(lines, <<NL>>),
                              !.new_tables = NewTables(source_data),
                              !.source = source_data]

NextSyncReadme ==
    \/ \E no_backup, force, files_ok \in BOOLEAN :
            MainStart("readme", no_backup, force, files_ok)
    \/ \E loaded \in BOOLEAN : MainLoad(loaded)
    \/ ReadmeCompare
    \/ MainBackup
    \/ \E io \in IoOutcomes : ReadmeUpdate(io)

SpecSyncReadme == InitSyncReadme /\ [][NextSyncReadme]_vars

\* =================================================================
\* Properties of the synchronisation scripts
\* =================================================================
\* the data is a dictionary of lists of dictionaries that each have a
\* non-empty 'year' and a non-empty 'title' (empty: missing aside, what
\* line 53 rejects, that is "", null and 0)
ValidProjectData(data) ==
    /\ data.kind = "dict"
    /\ \A c \in 1..Len(data.items) :
          /\ data.items[c].kind = "list"
          /\ \A i \in 1..Len(data.items[c].projects) :
                LET project == data.items[c].projects[i]
                IN  /\ project.kind = "dict"
                    /\ project.year \notin {Absent, JsonNull, EmptyString, ZeroNumber}
                    /\ project.title \notin {Absent, JsonNull, EmptyString, ZeroNumber}

\* C7: load_project_data returns the loaded data if and only if the data is
\* valid, and raises ValueError if and only if it is not.
C7_LoadValidates ==
    (lp.pc \in {"returned", "raised"} /\ lp.file = "json") =>
        /\ lp.result = "data" <=> ValidProjectData(lp.data)
        /\ lp.result = "ValueError" <=> ~ValidProjectData(lp.data)
        /\ lp.pc = "returned" <=> lp.result = "data"

\* a file whose first category is valid and whose second holds a project
\* without a title has been rejected
C7_Witness ==
    /\ lp.pc = "raised"
    /\ lp.result = "ValueError"
    /\ Len(lp.data.items) = 2
    /\ lp.ci = 2
    /\ lp.data.items[1].kind = "list"
    /\ Len(lp.data.items[1].projects) = 1
    /\ lp.data.items[2].kind = "list"
    /\ Len(lp.data.items[2].projects) = 1
    /\ lp.data.items[2].projects[1].title = Absent

\* C8 (as claimed): without --no-backup, whenever the target has been
\* written a backup file exists that holds the target's content from before
\* the first write of the run.
C8_BackupBeforeWrite ==
    (~mn.no_backup /\ mn.writes >= 1) =>
        (mn.backup.exists /\ mn.backup.content = mn.orig)

\* C8 (amended): without --no-backup, whenever the target has been written
\* create_backup was called before the first write, and the backup file, if
\* the copy succeeded, holds the target's content from before that write.
C8_BackupAttemptedBeforeWrite ==
    (~mn.no_backup /\ mn.writes >= 1) =>
        /\ mn.backup_called
        /\ mn.backup.exists => mn.backup.content = mn.orig

\* the HTML script has written the target twice with a backup in place
C8_Witness ==
    /\ ~mn.no_backup
    /\ mn.script = "html"
    /\ mn.writes = 2
    /\ mn.backup.exists
    /\ mn.backup.content = mn.orig
    /\ mn.target # mn.orig

\* C9 (as claimed): applying update_readme_file a second time with the same
\* new_tables leaves the content the first application produced.
C9_ReadmeIdempotent ==
    rd.applied >= 2 => rd.content = rd.first

\* C10 (as claimed): for an HTML content that holds a projectData assignment,
\* a second update_html_file with the same generate_js_object output leaves
\* the content the first one produced.
C10_HtmlIdempotent ==
    (ht.applied >= 2 /\ \E p \in 1..Len(ht.orig) : AssignmentAt(ht.orig, p))
        => ht.content = ht.first

\* =================================================================
\* Properties of the command line entry point
\* =================================================================
Providers == {"openai", "deepseek", "gemini", "mistral", "openaillm"}

\* the answer that lets the prompt at position p end
ValidAnswer(p, answer) ==
    IF p = "choice" THEN answer \in {"1", "2", "3", "4", "5"} ELSE answer # ""

\* C11: select_model_and_get_keys returns only a tuple whose provider is one
\* of the five, whose two keys are non-empty and whose base_url is a
\* non-empty string exactly for openaillm and None otherwise; and a prompt
\* loop is left towards the next prompt or the return only by a valid answer.
C11_SelectReturnsValid ==
    /\ [](sel.pc = "returned" =>
            /\ sel.provider \in Providers
            /\ sel.api_key # "" /\ sel.api_key # None
            /\ sel.semanticscholar_api_key # ""
            /\ sel.semanticscholar_api_key # None
            /\ (sel.provider = "openaillm"
                  => sel.base_url # None /\ sel.base_url # "")
            /\ (sel.provider # "openaillm" => sel.base_url = None))
    /\ [][(sel.pc \in SelPrompts /\ sel'.pc # sel.pc /\ sel'.pc # "raised")
            => ValidAnswer(sel.pc, sel'.answer)]_vars

\* an openaillm tuple returned after an answer was refused and asked again
C11_Witness ==
    /\ sel.pc = "returned"
    /\ sel.provider = "openaillm"
    /\ sel.prompts > 5

\* the lines of a text that are neither blank nor rows of a table
TextLines(text) ==
    SelectSeq(Split(text, NL), LAMBDA line : LStrip(line) # <<>> /\ ~IsTableLine(line))

\* C13 (as claimed): update_readme_file changes only table rows: the lines
\* of the README that are no table rows (section headers, text before and
\* after a table, sections not named in new_tables, text outside sections)
\* are the same, in the same order, after the update as before it.
C13_ReadmeFrame ==
    rd.applied >= 1 => TextLines(rd.content) = TextLines(rd.orig)

\* C14 (as claimed): after update_html_file has updated a file that held one
\* projectData assignment, the text before the object and the text after
\* its "};" are as they were and the object is exactly the generated one.
C14_HtmlFrame ==
    LET starts == { p \in 1..Len(ht.orig) : AssignmentAt(ht.orig, p) }
        o == AssignBrace(ht.orig, SetMin(starts))
    IN  (ht.applied = 1 /\ ht.ok /\ Cardinality(starts) = 1) =>
            ht.content = SubSeq(ht.orig, 1, o - 1)
                         \o ht.new_js_data \o <<";">>
                         \o SubSeq(ht.orig, ObjectEnd(ht.orig, o) + 1, Len(ht.orig))

\* C15: stop() has returned only when the spinner thread has ended; from
\* then on the thread takes no step and writes nothing, so no write of the
\* spinner follows the report lines of main on standard output; and a step
\* of the spinner thread changes nothing of main, of the agent's run or of
\* the pipeline's state.
C15_SpinnerCosmetic ==
    /\ [](cli.pc \in {"output", "done"} => spn.tpc = "terminated")
    /\ [](\A i, j \in 1..Len(stdout) :
              (i < j /\ stdout[i].by = "main") => stdout[j].by = "main")
    /\ [][ /\ cli.pc \in {"output", "done"} =>
                /\ spn' = spn
                /\ stdout' # stdout => stdout'[Len(stdout')].by = "main"
           /\ (spn.tpc \notin {"none", "terminated"} /\ spn'.tpc # spn.tpc) =>
                UNCHANGED <<toolVars, pipeVars, cli, sel>> ]_vars

\* the report is on the screen, after the last frame and the cleared line
C15_Witness ==
    /\ cli.pc = "done"
    /\ Len(stdout) = 3
    /\ stdout[1].by = "spinner" /\ stdout[1].text[1] = "Generating report..."
    /\ stdout[2] = [by |-> "spinner", text |-> <<"clear">>]
    /\ stdout[3] = [by |-> "main", text |-> <<"--- Report ---", "report">>]

\* C18: compare_project_data returns changes_count = 0 exactly when source
\* and target are equal (the same category keys with equal project lists);
\* changes_count is the number of added plus removed plus modified
\* categories, and no category is in two of the three lists.
C18_CompareCounts ==
    cp.pc = "returned" =>
        LET d == cp.differences
        IN  /\ d.changes_count = 0 <=>
                 /\ DOMAIN cp.source = DOMAIN cp.target
                 /\ \A c \in DOMAIN cp.source : cp.source[c] = cp.target[c]
            /\ d.changes_count = Cardinality(d.added_categories)
                                 + Cardinality(d.removed_categories)
                                 + Cardinality(d.modified_categories)
            /\ d.added_categories \cap d.removed_categories = {}
            /\ d.added_categories \cap d.modified_categories = {}
            /\ d.removed_categories \cap d.modified_categories = {}

\* one category added, one removed and one modified
C18_Witness ==
    /\ cp.pc = "returned"
    /\ Cardinality(cp.differences.added_categories) = 1
    /\ Cardinality(cp.differences.removed_categories) = 1
    /\ Cardinality(cp.differences.modified_categories) = 1
    /\ cp.differences.changes_count = 3

C20_StatsAfterUpdate ==
    mn.script = "html" =>
        /\ mn.stats # "none" => mn.updated = "True"
        /\ (mn.updated = "True" /\ mn.pc = "exit") =>
              (mn.stats # "none" /\ mn.exit = "0")
        /\ mn.updated = "True" => mn.pc \in {"stats", "exit"}
        /\ mn.updated = "False" =>
              (mn.pc = "exit" /\ mn.exit = "1" /\ mn.stats = "none")

\* projectData was updated, the statistics were not, and the run returned 0
C20_Witness ==
    /\ mn.script = "html"
    /\ mn.pc = "exit" /\ mn.exit = "0"
    /\ mn.updated = "True"
    /\ mn.stats = "False"

\* C19 (as claimed): update_html_file returns True exactly when it has
\* written the file with the new projectData; when it returns False the
\* content is as it was; and it returns False only when the file could not
\* be read or written or holds no projectData assignment - not when the
\* assignment is there and the generated object is the object in the file.
C19_HtmlReturn ==
    ht.last # "none" =>
        /\ ht.ok <=> ht.last = "written"
        /\ ~ht.ok => ht.content = ht.before
        /\ ~ht.ok =>
              \/ ht.last \in {"read_error", "write_error"}
              \/ ~\E p \in 1..Len(ht.before) : AssignmentAt(ht.before, p)

\* the text holds the section of every table of new_tables: its header line
\* and, before the next header, the table
HoldsTables(text, new_tables) ==
    \A i \in 1..Len(new_tables) :
        \E p \in 1..Len(text) :
            LET g == HeaderEnd(text, p,
                               get_category_display_name(new_tables[i].category))
                table == new_tables[i].table
            IN  /\ g # 0
                /\ \E q \in (g + 1)..BodyEnd(text, g + 1) :
                        /\ HasAt(text, q, table)
                        /\ q + Len(table) - 1 <= BodyEnd(text, g + 1)

\* C16 (as claimed): after a run of update_readme.main that has written the
\* tables of the JSON file into the README and returned 0, the next run on
\* the same JSON without --force finds no changes: it returns 0, calls
\* create_backup not at all and does not write the README.
C16_SecondRunNoChanges ==
    (/\ mn.pc = "exit" /\ mn.runs >= 2
     /\ mn.prev.script = mn.script
     /\ mn.prev.exit = "0" /\ mn.prev.updated = "True"
     /\ HoldsTables(rd.orig, NewTables(rd.source))
     /\ ~mn.force
     /\ mn.changes # -1)
        => (mn.changes = 0 /\ mn.exit = "0" /\ mn.writes = 0 /\ ~mn.backup_called)

\* =================================================================
\* Properties of update_all.py
\* =================================================================
\* the updates update_all.main has attempted have all exited with status 0
AllAttemptsExit0 == \A i \in 1..Len(ua.attempts) : ua.attempts[i].outcome = "exit0"

\* the targets that --readme-only / --html-only do not exclude
TargetsNotExcluded ==
    (IF ua.html_only THEN 0 ELSE 1) + (IF ua.readme_only THEN 0 ELSE 1)

\* 0 <= success_count <= total_updates <= 2, and at the summary
\* total_updates is the number of targets not excluded
UpdateCountsOk ==
    /\ 0 <= ua.success_count
    /\ ua.success_count <= ua.total_updates
    /\ ua.total_updates <= 2
    /\ ua.total_updates = Len(ua.attempts)
    /\ (ua.pc = "summary" \/ (ua.pc = "exit" /\ ua.counted))
            => ua.total_updates = TargetsNotExcluded

\* C21 (as claimed): update_all.main returns 0 if and only if every update
\* it attempted exited with status 0, and 1 otherwise; the counters stay
\* within 0 <= success_count <= total_updates <= 2 and total_updates counts
\* the targets not excluded.
C21_ReturnIffAllSucceeded ==
    /\ UpdateCountsOk
    /\ ua.pc = "exit" => /\ ua.ret \in {"0", "1"}
                         /\ (ua.ret = "0") <=> AllAttemptsExit0

\* C21 (amended): when the JSON file exists, update_all.main returns 0 if and
\* only if every update it attempted exited with status 0 (success_count =
\* total_updates), and 1 otherwise; when the JSON file does not exist it
\* returns 1 and attempts no update. The counters stay within
\* 0 <= success_count <= total_updates <= 2 and total_updates counts the
\* targets not excluded.
C21_ReturnIffAllSucceededWithJson ==
    /\ UpdateCountsOk
    /\ ua.pc = "exit" =>
          /\ ua.ret \in {"0", "1"}
          /\ ua.json_exists =>
                /\ (ua.ret = "0") <=> AllAttemptsExit0
                /\ (ua.ret = "0") <=> (ua.success_count = ua.total_updates)
          /\ ~ua.json_exists => (ua.ret = "1" /\ ua.attempts = <<>>)

\* one update exited 0, the other did not, and main has returned
C21_Witness ==
    /\ ua.pc = "exit" /\ ua.json_exists
    /\ Len(ua.attempts) = 2
    /\ ua.attempts[1].outcome # "exit0"
    /\ ua.attempts[2].outcome = "exit0"
    /\ ua.ret = "1"

\* C22: the README update is attempted before the HTML update, and unless
\* --readme-only is given update_html.py is run whatever the outcome of
\* update_readme.py was.
C22_HtmlAfterReadmeAlways ==
    /\ \A i, j \in 1..Len(ua.attempts) :
          (ua.attempts[i].script = "update_readme.py"
           /\ ua.attempts[j].script = "update_html.py") => i < j
    /\ (ua.pc \in {"summary", "exit"} /\ ua.counted /\ ~ua.readme_only)
          => \E i \in 1..Len(ua.attempts) : ua.attempts[i].script = "update_html.py"
    /\ (ua.pc \in {"html", "summary", "exit"} /\ ua.counted /\ ~ua.html_only)
          => ua.attempts # <<>> /\ ua.attempts[1].script = "update_readme.py"

\* update_readme.py has failed and update_html.py was run after it
C22_Witness ==
    /\ ua.pc = "exit"
    /\ Len(ua.attempts) = 2
    /\ ua.attempts[1].script = "update_readme.py"
    /\ ua.attempts[1].outcome \in {"not_found", "exit1"}
    /\ ua.attempts[2].script = "update_html.py"

\* =================================================================
\* Properties of add_record_interactive.py
\* =================================================================
\* json.dump and json.load of a string: the empty string stays empty, any
\* other string is a JSON string that is not empty
JsonString(text) ==
    CASE text = <<>> -> EmptyString
      [] text = <<"2024">> -> "\"2024\""
      [] text = <<"0">> -> "\"0\""
      [] OTHER -> "\"T\""

\* a saved record as load_project_data reads it back
LoadedProject(record) ==
    [kind |-> "dict",
     year |-> IF "year" \in DOMAIN record THEN JsonString(record["year"]) ELSE Absent,
     title |-> IF "title" \in DOMAIN record THEN JsonString(record["title"]) ELSE Absent]

\* C23: prompt_record_fields returns only records that have exactly the ten
\* schema keys with a non-empty 'year' and a non-empty 'title', and asks
\* again on any other input; every record add_record_interactive appends
\* passes the required-field checks of load_project_data.
C23_RecordValid ==
    /\ pf.record # NoRecord =>
          /\ DOMAIN pf.record = { FIELDS[i] : i \in 1..Len(FIELDS) }
          /\ Cardinality(DOMAIN pf.record) = 10
          /\ pf.record["year"] # <<>>
          /\ pf.record["title"] # <<>>
          /\ record_error(pf.line) = "ok"
    /\ (pf.pc = "record" /\ pf.prompts > 0) => record_error(pf.line) # "ok"
    /\ \A i \in 1..Len(pf.saved) : ProjectError(LoadedProject(pf.saved[i])) = "ok"

\* a record typed with fewer than ten fields and '""' in one of them has
\* been saved, after one line was refused
C23_Witness ==
    /\ pf.pc = "saved"
    /\ pf.prompts = 1
    /\ Len(Split(pf.line, ";")) < Len(FIELDS)
    /\ pf.saved[1]["githubStars"] = <<>>

\* =================================================================
\* Further properties of the pipeline
\* =================================================================
\* a DOI of paper_list has no row in the full-results table
MissingDoi ==
    \E i \in 1..Len(paper_list) :
        ~Existing(db[get_database_session(db_path)], paper_list[i].doi)

\* C24: when paper_list holds a DOI that is not in the full-results table,
\* query_paper raises instead of returning: run fails before the reporter is
\* called, no report is produced and the filtered-results table stays as it
\* was before the call.
C24_MissingDoiRaises ==
    /\ [][(pc = "query_paper" /\ MissingDoi)
            => /\ pc' = "raised"
               /\ rets'["query_paper"] = 0
               /\ calls'["reporter"] = 0
               /\ rets'["reporter"] = 0
               /\ query_paper_res' = query_paper_res
               /\ db' = db]_vars
    /\ [](pc = "raised" => rets["reporter"] = 0)

\* query_paper was called with a DOI that has no row, and run has failed
C24_Witness ==
    /\ pc = "raised"
    /\ calls["query_paper"] = 1
    /\ rets["query_paper"] = 0
    /\ MissingDoi
    /\ db[get_database_session(db_path)] # <<>>

\* the DOIs of the return value of the latest search_papers call
ReturnedDois == { sp.paper_ls[i] : i \in 1..Len(sp.paper_ls) }

C26_UniqueUnderInterleaving ==
    \A d \in DOIs \ {None} : CountDoi(db[SharedFile], d) <= 1

\* C27: the first annotator call of a run gets the searcher's response
\* content; every further call gets the plain string the call before it
\* returned, not the searcher's output; the paper_list handed to query_paper
\* is that of the first structured response, after which the annotator is
\* not called again.
C27_RetryInput ==
    /\ []((pc = "annotator" /\ rets["annotator"] = 0)
             => annotator_input = "rep.content")
    /\ []((pc = "annotator" /\ rets["annotator"] >= 1)
             => /\ annotator_res.kind = "str"
                /\ annotator_input = annotator_res.text
                /\ annotator_input # "rep.content")
    /\ [][ /\ (pc = "while" /\ annotator_res.kind = "obj")
                => /\ pc' = "query_paper"
                   /\ paper_list' = annotator_res.paper_list
           /\ (pc' = "query_paper" /\ pc # "query_paper")
                => paper_list' = annotator_res.paper_list
           /\ (pc \in {"query_paper", "reporter"})
                => /\ calls'["annotator"] = calls["annotator"]
                   /\ paper_list' = paper_list ]_vars

\* the annotator has answered a string and then a list, and query_paper is
\* called with that list
C27_Witness ==
    /\ pc = "query_paper"
    /\ calls["annotator"] = 2
    /\ annotator_input \in ContentStrings
    /\ paper_list # <<>>
    /\ paper_list = annotator_res.paper_list

\* =================================================================
\* Further properties of the command line entry point
\* =================================================================
\* C28 (as claimed): on every path after spinner.start() the spinner thread
\* ends: stop_running is set and the thread leaves _spin, also when agent.run
\* raises.
C28_SpinnerTerminates ==
    (spn.spinner_thread # None) ~> (spn.stop_running /\ spn.tpc = "terminated")

====
